---------------------------- MODULE Spec2Model ----------------------------
(***************************************************************************)
(* A model of the transaction ingress pipeline: the compute-budget         *)
(* instruction parser and sanitizer, the priority-flat packet buffer, the  *)
(* cost tracker, the prioritization-fee cache and the priority-graph       *)
(* scheduler.  Each subsystem has its own specification over its own       *)
(* variables; the variables of the other subsystems stay at their initial  *)
(* values.                                                                 *)
(***************************************************************************)
EXTENDS Integers, Sequences, FiniteSets, TLC

VARIABLES
    \* compute-budget parser / sanitizer
    instructions,     \* the (program_id, CompiledInstruction) sequence of a transaction
    limits_result,    \* what process_compute_budget_instructions returned, or NotRun
    cb_details,       \* a ComputeBudgetInstructionDetails record fed one instruction at a time
    cb_next,          \* index (0-based) of the next instruction fed to cb_details
    cb_result,        \* what the last process_instruction call returned
    details_in,       \* an InstructionDetails handed to the sanitizer directly, or None
    details_limits,   \* what sanitize_and_convert_to_compute_budget_limits made of it
    rt_limits,        \* what the runtime-transaction InstructionDetails sanitizer made of it
    builtin_cost,     \* a program id, a feature set and what get_builtin_instruction_cost
                      \* returned for them
    parse_runs,       \* the runs of get_instruction_details so far: the sequence each was
                      \* given and what it returned
    try_from_result,  \* what InstructionDetails::try_from returned for the instructions
    \* priority-flat buffer
    buffer,           \* Buffer: the VecDeque of batches (batch ids, insertion order)
    packets,          \* batch id -> (slot index -> priority): Batch.packets of every live batch
    index,            \* Index: the min-max heap, as a set of <<batch id, slot index>>
    made_batch,       \* the batch make_batch returned and the caller still holds, or None
    evicted,          \* packets popped from the index by the last insert_batch call
    last_insert,      \* what the last insert_batch call was given and found
    next_batch_id,    \* number of batches made so far
    \* cost tracker
    tracker,          \* CostTracker
    tracker_query,    \* the last would_exceed_limit call: arguments, answer, tracker before
    tracker_call,     \* the last add_transaction or reset call: arguments, tracker before and after
    tracker_ops,      \* number of tracker operations so far
    \* prioritization-fee cache
    cache,            \* slot -> PrioritizationFeeEntry
    channel,          \* the unbounded channel to the finalizing thread
    service_running,  \* the finalizing thread has not left its loop
    cache_dropped,    \* drop has begun: Exit is sent and the owner waits in join
    fee_log,          \* what the callers have submitted so far, per slot
    fee_ops,          \* number of calls made on the cache so far
    bank,             \* the bank being replayed: its slot, whether it was finalized, and the
                      \* number of cache entries the last finalize_priority_fee left
    evict_log,        \* the slots of the cache in the order their entries were created,
                      \* and the cache before and after the last evict_old_blocks
    \* priority-graph scheduler
    sched_config,     \* the transactions received, the caller's filters and the limits
    container,        \* TransactionStateContainer: ids of the transactions it holds
    scheduler,        \* the scheduler's own state: block cost so far, batches made
    work_channels,    \* worker -> queue of ConsumeWork messages
    finished_channel, \* queue of FinishedConsumeWork messages
    in_flight,        \* batches sent and whose completion has not been drained
    sched_stats,      \* BenchStats
    last_pass,        \* what the last schedule pass was given and did
    state_container,  \* TransactionStateContainer filled by fill_container, and what each
                      \* insert_new_transaction returned
    \* cost model
    cost_model,       \* CostModel: its CostTracker and current_bank_slot
    cost_model_try,   \* the last try_to_add_transaction call: transaction, result, tracker before
    cost_model_ops,   \* number of calls made on the cost model so far
    threads           \* the threads sharing the cost model behind a mutex: the transaction
                      \* of each and what its call returned

budget_vars ==
    <<instructions, limits_result, cb_details, cb_next, cb_result, details_in, details_limits,
      rt_limits, builtin_cost, parse_runs,
                   try_from_result>>
buffer_vars == <<buffer, packets, index, made_batch, evicted, last_insert, next_batch_id>>
tracker_vars == <<tracker, tracker_query, tracker_call, tracker_ops>>
fee_vars == <<cache, channel, service_running, cache_dropped, fee_log, fee_ops, bank,
             evict_log>>
sched_vars ==
    <<sched_config, container, scheduler, work_channels, finished_channel, in_flight,
      sched_stats, last_pass, state_container>>
cost_model_vars == <<cost_model, cost_model_try, cost_model_ops, threads>>
vars == <<budget_vars, buffer_vars, tracker_vars, fee_vars, sched_vars, cost_model_vars>>

(***************************************************************************)
(* Unsigned machine integers.  A u32 is kept as <<hi, lo>> with 16-bit     *)
(* halves (value hi * 2^16 + lo), so that u32::MAX and wrap-around are     *)
(* those of the program; a u64 is kept as four 16-bit limbs.               *)
(***************************************************************************)
Half == 256 * 256

U32(n) == <<n \div Half, n % Half>>

U32_MAX == <<Half - 1, Half - 1>>

U64(n) == <<0, 0, n \div Half, n % Half>>

U64_MAX == <<Half - 1, Half - 1, Half - 1, Half - 1>>

U32Lt(a, b) == a[1] < b[1] \/ (a[1] = b[1] /\ a[2] < b[2])

U32Le(a, b) == a = b \/ U32Lt(a, b)

U32Min(a, b) == IF U32Lt(b, a) THEN b ELSE a

\* a + b carries out of 32 bits
AddCarries(a, b) == a[1] + b[1] + ((a[2] + b[2]) \div Half) >= Half

wrapping_add(a, b) ==
    <<(a[1] + b[1] + ((a[2] + b[2]) \div Half)) % Half, (a[2] + b[2]) % Half>>

saturating_add(a, b) == IF AddCarries(a, b) THEN U32_MAX ELSE wrapping_add(a, b)

saturating_sub(a, b) ==
    IF U32Le(a, b) THEN U32(0)
    ELSE IF a[2] >= b[2] THEN <<a[1] - b[1], a[2] - b[2]>>
    ELSE <<a[1] - b[1] - 1, a[2] + Half - b[2]>>

U32Halve(a) == <<a[1] \div 2, ((a[1] % 2) * Half + a[2]) \div 2>>

RECURSIVE saturating_mul(_, _)
saturating_mul(a, b) ==
    IF b = U32(0) THEN U32(0)
    ELSE LET h == saturating_mul(a, U32Halve(b))
             d == saturating_add(h, h)
         IN  IF b[2] % 2 = 1 THEN saturating_add(d, a) ELSE d

U32Mod1024(a) == a[2] % 1024

(***************************************************************************)
(* Results and options.                                                    *)
(***************************************************************************)
None == <<>>

Some(v) == <<v>>

Ok(v) == [ok |-> TRUE, value |-> v]

Err(e) == [ok |-> FALSE, err |-> e]

NotRun == [ok |-> FALSE, err |-> [kind |-> "NotRun"]]

InvalidInstructionData(idx) ==
    [kind |-> "InstructionError", index |-> idx, err |-> "InvalidInstructionData"]

DuplicateInstruction(idx) == [kind |-> "DuplicateInstruction", index |-> idx]

InvalidLoadedAccountsDataSizeLimit == [kind |-> "InvalidLoadedAccountsDataSizeLimit"]

(***************************************************************************)
(* Constants of the compute-budget library.                                *)
(***************************************************************************)
MIN_HEAP_FRAME_BYTES == U32(32 * 1024)

MAX_HEAP_FRAME_BYTES == U32(256 * 1024)

DEFAULT_INSTRUCTION_COMPUTE_UNIT_LIMIT == U32(200000)

MAX_COMPUTE_UNIT_LIMIT == U32(1400000)

MAX_LOADED_ACCOUNTS_DATA_SIZE_BYTES == U32(64 * 1024 * 1024)

(***************************************************************************)
(* Program ids and the builtin cost table.                                 *)
(***************************************************************************)
ComputeBudgetProgram == "ComputeBudget111111111111111111111111111111"

SystemProgram == "11111111111111111111111111111111"

UserProgram == "dummmy1111111111111111111111111111111111111"

StakeProgram == "Stake11111111111111111111111111111111111111"

\* a program that is no builtin and whose key begins with the byte the stake
\* program's key begins with
TokenProgram == "TokenkegQfeZyiNwAJbNbGKPFXCWuBvf9Ss623VQ5DA"

compute_budget_check_id(program_id) == program_id = ComputeBudgetProgram

\* BUILTIN_INSTRUCTION_COSTS restricted to the program ids the model uses
BUILTIN_INSTRUCTION_COSTS ==
    [p \in {ComputeBudgetProgram, SystemProgram, StakeProgram} |->
        IF p = StakeProgram THEN U32(750) ELSE U32(150)]

\* program_id.as_ref()[0]: the first of the 32 bytes of the key
first_byte(program_id) ==
    CASE program_id = SystemProgram -> 0
      [] program_id = ComputeBudgetProgram -> 3
      [] program_id = StakeProgram -> 6
      [] program_id = TokenProgram -> 6
      [] program_id = UserProgram -> 9

\* a table that flags the first byte of the system program alone
MAYBE_BUILTIN_KEY_first == [b \in 0..255 |-> b = first_byte(SystemProgram)]

\* MAYBE_BUILTIN_KEY: temp_table[key.as_ref()[0]] = true for every key of
\* BUILTIN_INSTRUCTION_COSTS
MAYBE_BUILTIN_KEY ==
    [b \in 0..255 |-> \E key \in DOMAIN BUILTIN_INSTRUCTION_COSTS : first_byte(key) = b]

\* BuiltinCost
BuiltinCost(native_cost, sbpf_migration_feature) ==
    [native_cost |-> native_cost, sbpf_migration_feature |-> sbpf_migration_feature]

\* BUILTIN_INSTRUCTION_COSTS with the migration feature of each entry; the
\* native costs are the DEFAULT_COMPUTE_UNITS of the programs' crates
BuiltinCosts ==
    [stake |-> BuiltinCost(750, Some("migrate_stake_program_to_core_bpf")),
     config |-> BuiltinCost(450, Some("migrate_config_program_to_core_bpf")),
     vote |-> BuiltinCost(2100, None),
     system_program |-> BuiltinCost(150, None),
     compute_budget |-> BuiltinCost(150, None),
     address_lookup_table |->
         BuiltinCost(750, Some("migrate_address_lookup_table_program_to_core_bpf")),
     bpf_loader_upgradeable |-> BuiltinCost(2370, None),
     bpf_loader_deprecated |-> BuiltinCost(1140, None),
     bpf_loader |-> BuiltinCost(570, None),
     loader_v4 |-> BuiltinCost(2000, None),
     secp256k1_program |-> BuiltinCost(0, None),
     ed25519_program |-> BuiltinCost(0, None)]

\* a lookup that takes no account of the feature set
get_builtin_instruction_cost_native(program_id, feature_set) ==
    IF program_id \in DOMAIN BuiltinCosts
    THEN Some(BuiltinCosts[program_id].native_cost)
    ELSE None

\* get_builtin_instruction_cost; feature_set is the set of active features
get_builtin_instruction_cost(program_id, feature_set) ==
    IF program_id \in DOMAIN BuiltinCosts
    THEN LET builtin_cost_entry == BuiltinCosts[program_id]
         IN  IF builtin_cost_entry.sbpf_migration_feature = None
             THEN Some(builtin_cost_entry.native_cost)
             ELSE IF builtin_cost_entry.sbpf_migration_feature[1] \in feature_set
             THEN Some(0)
             ELSE Some(builtin_cost_entry.native_cost)
    ELSE None

(***************************************************************************)
(* compute-budget-processor: InstructionDetails, the scan over the         *)
(* instructions and the conversion to ComputeBudgetLimits.                 *)
(***************************************************************************)
InstructionDetailsDefault ==
    [requested_compute_unit_limit |-> None,
     requested_compute_unit_price |-> None,
     requested_heap_size |-> None,
     requested_loaded_accounts_data_size_limit |-> None,
     sum_builtin_compute_units |-> U32(0),
     count_builtin_instructions |-> U32(0),
     count_non_builtin_instructions |-> U32(0),
     count_compute_budget_instructions |-> U32(0)]

\* borsh try_from_slice_unchecked on instruction.data: the decoded
\* ComputeBudgetInstruction, or an error when the bytes decode to no variant
try_from_slice_unchecked(data) ==
    IF data.variant = "Undecodable" THEN Err("BorshIoError") ELSE Ok(data)

sanitize_requested_heap_size_off(bytes) ==
    U32Le(MIN_HEAP_FRAME_BYTES, bytes) /\ U32Le(bytes, MAX_HEAP_FRAME_BYTES)

sanitize_requested_heap_size(bytes) ==
    /\ U32Le(MIN_HEAP_FRAME_BYTES, bytes)
    /\ U32Le(bytes, MAX_HEAP_FRAME_BYTES)
    /\ U32Mod1024(bytes) = 0

parse_compute_budget_instructions_first(d, idx, program_id, instruction) ==
    IF compute_budget_check_id(program_id) THEN
        LET counted == [d EXCEPT !.count_compute_budget_instructions =
                                    saturating_add(@, U32(1))]
            decoded == try_from_slice_unchecked(instruction.data)
            variant == IF decoded.ok THEN decoded.value.variant ELSE "Undecodable"
            v == decoded.value.value
        IN  CASE variant = "RequestHeapFrame" ->
                    IF d.requested_heap_size # None
                    THEN Err(DuplicateInstruction(d.requested_heap_size[1][1]))
                    ELSE IF sanitize_requested_heap_size(v)
                    THEN Ok([counted EXCEPT !.requested_heap_size = Some(<<idx, v>>)])
                    ELSE Err(InvalidInstructionData(idx))
              [] variant = "SetComputeUnitLimit" ->
                    IF d.requested_compute_unit_limit # None
                    THEN Err(DuplicateInstruction(d.requested_compute_unit_limit[1][1]))
                    ELSE Ok([counted EXCEPT !.requested_compute_unit_limit = Some(<<idx, v>>)])
              [] variant = "SetComputeUnitPrice" ->
                    IF d.requested_compute_unit_price # None
                    THEN Err(DuplicateInstruction(d.requested_compute_unit_price[1][1]))
                    ELSE Ok([counted EXCEPT !.requested_compute_unit_price = Some(<<idx, v>>)])
              [] variant = "SetLoadedAccountsDataSizeLimit" ->
                    IF d.requested_loaded_accounts_data_size_limit # None
                    THEN Err(DuplicateInstruction(
                             d.requested_loaded_accounts_data_size_limit[1][1]))
                    ELSE Ok([counted EXCEPT
                               !.requested_loaded_accounts_data_size_limit = Some(<<idx, v>>)])
              [] OTHER -> Err(InvalidInstructionData(idx))
    ELSE Ok(d)

\* a scan in which a repeated request replaces the earlier one
parse_compute_budget_instructions_overwriting(d, idx, program_id, instruction) ==
    IF compute_budget_check_id(program_id) THEN
        LET counted == [d EXCEPT !.count_compute_budget_instructions =
                                    saturating_add(@, U32(1))]
            decoded == try_from_slice_unchecked(instruction.data)
            variant == IF decoded.ok THEN decoded.value.variant ELSE "Undecodable"
            v == decoded.value.value
        IN  CASE variant = "RequestHeapFrame" ->
                    IF sanitize_requested_heap_size(v)
                    THEN Ok([counted EXCEPT !.requested_heap_size = Some(<<idx, v>>)])
                    ELSE Err(InvalidInstructionData(idx))
              [] variant = "SetComputeUnitLimit" ->
                    Ok([counted EXCEPT !.requested_compute_unit_limit = Some(<<idx, v>>)])
              [] variant = "SetComputeUnitPrice" ->
                    Ok([counted EXCEPT !.requested_compute_unit_price = Some(<<idx, v>>)])
              [] variant = "SetLoadedAccountsDataSizeLimit" ->
                    Ok([counted EXCEPT
                          !.requested_loaded_accounts_data_size_limit = Some(<<idx, v>>)])
              [] OTHER -> Err(InvalidInstructionData(idx))
    ELSE Ok(d)

parse_compute_budget_instructions(d, idx, program_id, instruction) ==
    IF compute_budget_check_id(program_id) THEN
        LET counted == [d EXCEPT !.count_compute_budget_instructions =
                                    saturating_add(@, U32(1))]
            decoded == try_from_slice_unchecked(instruction.data)
            variant == IF decoded.ok THEN decoded.value.variant ELSE "Undecodable"
            v == decoded.value.value
        IN  CASE variant = "RequestHeapFrame" ->
                    IF d.requested_heap_size # None
                    THEN Err(DuplicateInstruction(idx))
                    ELSE IF sanitize_requested_heap_size(v)
                    THEN Ok([counted EXCEPT !.requested_heap_size = Some(<<idx, v>>)])
                    ELSE Err(InvalidInstructionData(idx))
              [] variant = "SetComputeUnitLimit" ->
                    IF d.requested_compute_unit_limit # None
                    THEN Err(DuplicateInstruction(idx))
                    ELSE Ok([counted EXCEPT !.requested_compute_unit_limit = Some(<<idx, v>>)])
              [] variant = "SetComputeUnitPrice" ->
                    IF d.requested_compute_unit_price # None
                    THEN Err(DuplicateInstruction(idx))
                    ELSE Ok([counted EXCEPT !.requested_compute_unit_price = Some(<<idx, v>>)])
              [] variant = "SetLoadedAccountsDataSizeLimit" ->
                    IF d.requested_loaded_accounts_data_size_limit # None
                    THEN Err(DuplicateInstruction(idx))
                    ELSE Ok([counted EXCEPT
                               !.requested_loaded_accounts_data_size_limit = Some(<<idx, v>>)])
              [] OTHER -> Err(InvalidInstructionData(idx))
    ELSE Ok(d)

\* a lookup that leaves the compute-budget program out of the builtin count
parse_builtin_instructions_skipping(d, idx, program_id, instruction) ==
    IF compute_budget_check_id(program_id) THEN Ok(d)
    ELSE IF program_id \in DOMAIN BUILTIN_INSTRUCTION_COSTS
    THEN Ok([d EXCEPT
               !.sum_builtin_compute_units =
                   saturating_add(@, BUILTIN_INSTRUCTION_COSTS[program_id]),
               !.count_builtin_instructions = saturating_add(@, U32(1))])
    ELSE Ok([d EXCEPT !.count_non_builtin_instructions = saturating_add(@, U32(1))])

parse_builtin_instructions(d, idx, program_id, instruction) ==
    IF program_id \in DOMAIN BUILTIN_INSTRUCTION_COSTS
    THEN Ok([d EXCEPT
               !.sum_builtin_compute_units =
                   saturating_add(@, BUILTIN_INSTRUCTION_COSTS[program_id]),
               !.count_builtin_instructions = saturating_add(@, U32(1))])
    ELSE Ok([d EXCEPT !.count_non_builtin_instructions = saturating_add(@, U32(1))])

\* a scan that goes on after a failing instruction and returns the error of
\* the last one that fails
RECURSIVE get_instruction_details_last_error(_, _, _)
get_instruction_details_last_error(ixs, i, d) ==
    IF i > Len(ixs) THEN Ok(d)
    ELSE LET idx == (i - 1) % 256
             r1 == parse_compute_budget_instructions(d, idx, ixs[i].program_id, ixs[i])
             rest == get_instruction_details_last_error(ixs, i + 1,
                                                        IF r1.ok THEN r1.value ELSE d)
         IN  IF r1.ok \/ ~rest.ok THEN rest ELSE r1

\* the loop of get_instruction_details from the i-th instruction (1-based) on;
\* the enumerate() index is cast to u8
RECURSIVE get_instruction_details_from(_, _, _)
get_instruction_details_from(ixs, i, d) ==
    IF i > Len(ixs) THEN Ok(d)
    ELSE LET idx == (i - 1) % 256
             r1 == parse_compute_budget_instructions(d, idx, ixs[i].program_id, ixs[i])
         IN  IF ~r1.ok THEN r1
             ELSE LET r2 == parse_builtin_instructions(r1.value, idx, ixs[i].program_id, ixs[i])
                  IN  IF ~r2.ok THEN r2
                      ELSE get_instruction_details_from(ixs, i + 1, r2.value)

\* a parser that goes on from the details its last run returned
get_instruction_details_resumed(ixs) ==
    get_instruction_details_from(
        ixs, 1,
        IF parse_runs # <<>> /\ parse_runs[Len(parse_runs)].result.ok
        THEN parse_runs[Len(parse_runs)].result.value
        ELSE InstructionDetailsDefault)

get_instruction_details(ixs) ==
    get_instruction_details_from(ixs, 1, InstructionDetailsDefault)

default_compute_unit_limit_wrapping(d) ==
    saturating_mul(
        saturating_sub(
            wrapping_add(d.count_builtin_instructions, d.count_non_builtin_instructions),
            d.count_compute_budget_instructions),
        DEFAULT_INSTRUCTION_COMPUTE_UNIT_LIMIT)

\* the closure of map_or_else: the limit when none was requested
default_compute_unit_limit(d) ==
    saturating_mul(
        saturating_sub(
            saturating_add(d.count_builtin_instructions, d.count_non_builtin_instructions),
            d.count_compute_budget_instructions),
        DEFAULT_INSTRUCTION_COMPUTE_UNIT_LIMIT)

sanitize_and_convert_unclamped(d) ==
    LET updated_heap_bytes ==
            IF d.requested_heap_size = None THEN MIN_HEAP_FRAME_BYTES
            ELSE d.requested_heap_size[1][2]
        compute_unit_limit ==
            IF d.requested_compute_unit_limit = None
            THEN default_compute_unit_limit(d)
            ELSE d.requested_compute_unit_limit[1][2]
        compute_unit_price ==
            IF d.requested_compute_unit_price = None THEN U64(0)
            ELSE d.requested_compute_unit_price[1][2]
        requested == d.requested_loaded_accounts_data_size_limit
    IN  IF requested # None /\ requested[1][2] = U32(0)
        THEN Err(InvalidLoadedAccountsDataSizeLimit)
        ELSE Ok([updated_heap_bytes |-> updated_heap_bytes,
                 compute_unit_limit |-> compute_unit_limit,
                 compute_unit_price |-> compute_unit_price,
                 loaded_accounts_bytes |->
                     IF requested = None THEN MAX_LOADED_ACCOUNTS_DATA_SIZE_BYTES
                     ELSE requested[1][2]])

sanitize_and_convert_to_compute_budget_limits(d) ==
    LET updated_heap_bytes ==
            U32Min(IF d.requested_heap_size = None THEN MIN_HEAP_FRAME_BYTES
                   ELSE d.requested_heap_size[1][2],
                   MAX_HEAP_FRAME_BYTES)
        compute_unit_limit ==
            U32Min(IF d.requested_compute_unit_limit = None
                   THEN default_compute_unit_limit(d)
                   ELSE d.requested_compute_unit_limit[1][2],
                   MAX_COMPUTE_UNIT_LIMIT)
        compute_unit_price ==
            IF d.requested_compute_unit_price = None THEN U64(0)
            ELSE d.requested_compute_unit_price[1][2]
        requested == d.requested_loaded_accounts_data_size_limit
    IN  IF requested # None /\ requested[1][2] = U32(0)
        THEN Err(InvalidLoadedAccountsDataSizeLimit)
        ELSE Ok([updated_heap_bytes |-> updated_heap_bytes,
                 compute_unit_limit |-> compute_unit_limit,
                 compute_unit_price |-> compute_unit_price,
                 loaded_accounts_bytes |->
                     U32Min(IF requested = None THEN MAX_LOADED_ACCOUNTS_DATA_SIZE_BYTES
                            ELSE requested[1][2],
                            MAX_LOADED_ACCOUNTS_DATA_SIZE_BYTES)])

process_compute_budget_instructions(ixs) ==
    LET r == get_instruction_details(ixs)
    IN  IF ~r.ok THEN r ELSE sanitize_and_convert_to_compute_budget_limits(r.value)

(***************************************************************************)
(* runtime-transaction: ComputeBudgetInstructionDetails, fed one           *)
(* instruction at a time.                                                  *)
(***************************************************************************)
ComputeBudgetInstructionDetailsDefault ==
    [requested_compute_unit_limit |-> None,
     requested_compute_unit_price |-> None,
     requested_heap_size |-> None,
     requested_loaded_accounts_data_size_limit |-> None,
     count_compute_budget_instructions |-> U32(0)]

\* ComputeBudgetInstructionDetails::process_instruction: Ok with the record
\* as the call leaves it, or the error (the record is then as before)
process_instruction(d, idx, program_id, instruction) ==
    IF compute_budget_check_id(program_id) THEN
        LET decoded == try_from_slice_unchecked(instruction.data)
            variant == IF decoded.ok THEN decoded.value.variant ELSE "Undecodable"
            v == decoded.value.value
            count(r) == [r EXCEPT !.count_compute_budget_instructions =
                                     saturating_add(@, U32(1))]
        IN  CASE variant = "RequestHeapFrame" ->
                    IF d.requested_heap_size # None
                    THEN Err(DuplicateInstruction(idx))
                    ELSE IF sanitize_requested_heap_size(v)
                    THEN Ok(count([d EXCEPT !.requested_heap_size = Some(<<idx, v>>)]))
                    ELSE Err(InvalidInstructionData(idx))
              [] variant = "SetComputeUnitLimit" ->
                    IF d.requested_compute_unit_limit # None
                    THEN Err(DuplicateInstruction(idx))
                    ELSE Ok(count([d EXCEPT !.requested_compute_unit_limit = Some(<<idx, v>>)]))
              [] variant = "SetComputeUnitPrice" ->
                    IF d.requested_compute_unit_price # None
                    THEN Err(DuplicateInstruction(idx))
                    ELSE Ok(count([d EXCEPT !.requested_compute_unit_price = Some(<<idx, v>>)]))
              [] variant = "SetLoadedAccountsDataSizeLimit" ->
                    IF d.requested_loaded_accounts_data_size_limit # None
                    THEN Err(DuplicateInstruction(idx))
                    ELSE Ok(count([d EXCEPT
                               !.requested_loaded_accounts_data_size_limit = Some(<<idx, v>>)]))
              [] OTHER -> Err(InvalidInstructionData(idx))
    ELSE Ok(d)

\* a record that counts the instruction before it looks at it
process_instruction_self_counted(d, idx, program_id, instruction) ==
    IF compute_budget_check_id(program_id)
    THEN LET r == process_instruction(d, idx, program_id, instruction)
         IN  IF r.ok THEN r.value
             ELSE [d EXCEPT !.count_compute_budget_instructions =
                               saturating_add(@, U32(1))]
    ELSE d

\* ComputeBudgetInstructionDetails::process_instruction: the record (&mut
\* self) as the call leaves it, whatever it returns
process_instruction_self(d, idx, program_id, instruction) ==
    IF compute_budget_check_id(program_id) THEN
        LET decoded == try_from_slice_unchecked(instruction.data)
            variant == IF decoded.ok THEN decoded.value.variant ELSE "Undecodable"
            v == decoded.value.value
            count(r) == [r EXCEPT !.count_compute_budget_instructions =
                                     saturating_add(@, U32(1))]
        IN  CASE variant = "RequestHeapFrame" ->
                    IF d.requested_heap_size # None THEN d
                    ELSE IF sanitize_requested_heap_size(v)
                    THEN count([d EXCEPT !.requested_heap_size = Some(<<idx, v>>)])
                    ELSE d
              [] variant = "SetComputeUnitLimit" ->
                    IF d.requested_compute_unit_limit # None THEN d
                    ELSE count([d EXCEPT !.requested_compute_unit_limit = Some(<<idx, v>>)])
              [] variant = "SetComputeUnitPrice" ->
                    IF d.requested_compute_unit_price # None THEN d
                    ELSE count([d EXCEPT !.requested_compute_unit_price = Some(<<idx, v>>)])
              [] variant = "SetLoadedAccountsDataSizeLimit" ->
                    IF d.requested_loaded_accounts_data_size_limit # None THEN d
                    ELSE count([d EXCEPT
                               !.requested_loaded_accounts_data_size_limit = Some(<<idx, v>>)])
              [] OTHER -> d
    ELSE d

(***************************************************************************)
(* runtime-transaction: InstructionDetails, whose sanitizer also checks    *)
(* the requested heap size.                                                *)
(***************************************************************************)
\* InstructionDetails::num_non_compute_budget_instructions
num_non_compute_budget_instructions(d) ==
    saturating_sub(
        saturating_add(d.count_builtin_instructions, d.count_non_builtin_instructions),
        d.count_compute_budget_instructions)

loaded_accounts_bytes_or_max(requested) ==
    IF requested = None \/ requested[1][2] = U32(0)
    THEN Ok(MAX_LOADED_ACCOUNTS_DATA_SIZE_BYTES)
    ELSE Ok(U32Min(requested[1][2], MAX_LOADED_ACCOUNTS_DATA_SIZE_BYTES))

\* let loaded_accounts_bytes = ... : NonZeroU32::new(..).ok_or(..)? on a
\* request, the maximum otherwise, then min with the maximum
loaded_accounts_bytes(requested) ==
    IF requested # None /\ requested[1][2] = U32(0)
    THEN Err(InvalidLoadedAccountsDataSizeLimit)
    ELSE Ok(U32Min(IF requested = None THEN MAX_LOADED_ACCOUNTS_DATA_SIZE_BYTES
                   ELSE requested[1][2],
                   MAX_LOADED_ACCOUNTS_DATA_SIZE_BYTES))

InstructionDetails_sanitize_unclamped(d) ==
    IF /\ d.requested_heap_size # None
       /\ ~sanitize_requested_heap_size(d.requested_heap_size[1][2])
    THEN Err(InvalidInstructionData(d.requested_heap_size[1][1]))
    ELSE LET loaded == loaded_accounts_bytes(d.requested_loaded_accounts_data_size_limit)
         IN  IF ~loaded.ok THEN loaded
             ELSE Ok([updated_heap_bytes |->
                          IF d.requested_heap_size = None THEN MIN_HEAP_FRAME_BYTES
                          ELSE d.requested_heap_size[1][2],
                      compute_unit_limit |->
                          IF d.requested_compute_unit_limit = None
                          THEN saturating_mul(num_non_compute_budget_instructions(d),
                                              DEFAULT_INSTRUCTION_COMPUTE_UNIT_LIMIT)
                          ELSE d.requested_compute_unit_limit[1][2],
                      compute_unit_price |->
                          IF d.requested_compute_unit_price = None THEN U64(0)
                          ELSE d.requested_compute_unit_price[1][2],
                      loaded_accounts_bytes |-> loaded.value])

\* InstructionDetails::process_compute_budget_instruction: step 1 of the
\* parser, the count incremented on success
process_compute_budget_instruction(d, idx, program_id, instruction) ==
    process_instruction(d, idx, program_id, instruction)

\* InstructionDetails::process_builtin_instruction: step 2 of the parser
process_builtin_instruction(d, program_id, instruction) ==
    IF program_id \in DOMAIN BUILTIN_INSTRUCTION_COSTS
    THEN Ok([d EXCEPT
               !.sum_builtin_compute_units =
                   saturating_add(@, BUILTIN_INSTRUCTION_COSTS[program_id]),
               !.count_builtin_instructions = saturating_add(@, U32(1))])
    ELSE Ok([d EXCEPT !.count_non_builtin_instructions = saturating_add(@, U32(1))])

\* the loop of InstructionDetails::try_from from the i-th instruction
\* (1-based) on
RECURSIVE try_from_loop(_, _, _)
try_from_loop(ixs, i, d) ==
    IF i > Len(ixs) THEN Ok(d)
    ELSE IF MAYBE_BUILTIN_KEY[first_byte(ixs[i].program_id)]
    THEN LET r1 == process_compute_budget_instruction(d, (i - 1) % 256,
                                                      ixs[i].program_id, ixs[i])
         IN  IF ~r1.ok THEN r1
             ELSE LET r2 == process_builtin_instruction(r1.value, ixs[i].program_id, ixs[i])
                  IN  IF ~r2.ok THEN r2
                      ELSE try_from_loop(ixs, i + 1, r2.value)
    ELSE try_from_loop(ixs, i + 1,
                       [d EXCEPT !.count_non_builtin_instructions =
                                    saturating_add(@, U32(1))])

\* InstructionDetails::try_from
try_from(ixs) == try_from_loop(ixs, 1, InstructionDetailsDefault)

\* a sanitizer that clamps the heap size it is given and does not check it
InstructionDetails_sanitize_heap_clamped(d) ==
    sanitize_and_convert_to_compute_budget_limits(d)

\* InstructionDetails::sanitize_and_convert_to_compute_budget_limits of
\* runtime-transaction: the heap size is checked first, the loaded-accounts
\* size last
InstructionDetails_sanitize_and_convert_to_compute_budget_limits(d) ==
    IF /\ d.requested_heap_size # None
       /\ ~sanitize_requested_heap_size(d.requested_heap_size[1][2])
    THEN Err(InvalidInstructionData(d.requested_heap_size[1][1]))
    ELSE LET loaded == loaded_accounts_bytes(d.requested_loaded_accounts_data_size_limit)
         IN  IF ~loaded.ok THEN loaded
             ELSE Ok([updated_heap_bytes |->
                          U32Min(IF d.requested_heap_size = None THEN MIN_HEAP_FRAME_BYTES
                                 ELSE d.requested_heap_size[1][2],
                                 MAX_HEAP_FRAME_BYTES),
                      compute_unit_limit |->
                          U32Min(IF d.requested_compute_unit_limit = None
                                 THEN saturating_mul(num_non_compute_budget_instructions(d),
                                                     DEFAULT_INSTRUCTION_COMPUTE_UNIT_LIMIT)
                                 ELSE d.requested_compute_unit_limit[1][2],
                                 MAX_COMPUTE_UNIT_LIMIT),
                      compute_unit_price |->
                          IF d.requested_compute_unit_price = None THEN U64(0)
                          ELSE d.requested_compute_unit_price[1][2],
                      loaded_accounts_bytes |-> loaded.value])

(***************************************************************************)
(* The parser's specification: a transaction's instructions are drawn from *)
(* a small alphabet, then process_compute_budget_instructions is applied   *)
(* to them, and process_instruction is fed them one at a time.             *)
(***************************************************************************)
MaxIxs == 3

Ix(program_id, variant, value) ==
    [program_id |-> program_id, data |-> [variant |-> variant, value |-> value]]

HeapRequests ==
    {U32(31 * 1024), U32(32 * 1024), U32(40 * 1024 + 1), U32(256 * 1024), U32(257 * 1024)}

UnitLimitRequests == {U32(1), U32(1400001)}

UnitPriceRequests == {U64(42)}

LoadedSizeRequests == {U32(0), U32(1234), U32(64 * 1024 * 1024 + 1)}

IxAlphabet ==
    {Ix(ComputeBudgetProgram, "RequestHeapFrame", b) : b \in HeapRequests}
    \cup {Ix(ComputeBudgetProgram, "SetComputeUnitLimit", x) : x \in UnitLimitRequests}
    \cup {Ix(ComputeBudgetProgram, "SetComputeUnitPrice", x) : x \in UnitPriceRequests}
    \cup {Ix(ComputeBudgetProgram, "SetLoadedAccountsDataSizeLimit", x) :
             x \in LoadedSizeRequests}
    \cup {Ix(ComputeBudgetProgram, "RequestUnitsDeprecated", U32(7)),
          Ix(ComputeBudgetProgram, "Undecodable", U32(0)),
          Ix(SystemProgram, "Transfer", U32(2)),
          Ix(UserProgram, "Opaque", U32(0))}

\* counts an InstructionDetails may hold
DetailsCounts == {U32(0), U32(1), U32(7), U32(21475), U32_MAX}

\* InstructionDetails records handed to the sanitizer directly
DetailsChoices ==
    {[InstructionDetailsDefault EXCEPT
         !.requested_compute_unit_limit = limit,
         !.requested_compute_unit_price = price,
         !.requested_heap_size = heap,
         !.requested_loaded_accounts_data_size_limit = size,
         !.count_builtin_instructions = b,
         !.count_non_builtin_instructions = n,
         !.count_compute_budget_instructions = c] :
      limit \in {None, Some(<<1, U32(1400001)>>), Some(<<1, U32_MAX>>)},
      price \in {None, Some(<<2, U64_MAX>>)},
      heap \in {None, Some(<<3, U32(31 * 1024)>>), Some(<<3, U32(40 * 1024)>>),
                Some(<<3, MAX_HEAP_FRAME_BYTES>>), Some(<<3, U32_MAX>>)},
      size \in {None, Some(<<4, U32(0)>>), Some(<<4, U32(1234)>>), Some(<<4, U32_MAX>>)},
      b \in DetailsCounts, n \in DetailsCounts, c \in DetailsCounts}

NoBuiltinQuery == [program_id |-> "", feature_set |-> {}, result |-> NotRun]

BudgetIdle ==
    /\ instructions = <<>>
    /\ limits_result = NotRun
    /\ cb_details = ComputeBudgetInstructionDetailsDefault
    /\ cb_next = 0
    /\ cb_result = Ok(<<>>)
    /\ details_in = None
    /\ details_limits = NotRun
    /\ rt_limits = NotRun
    /\ builtin_cost = NoBuiltinQuery
    /\ parse_runs = <<>>
    /\ try_from_result = NotRun

\* a transaction's instructions, or an InstructionDetails for the sanitizer
BudgetInit ==
    /\ \/ /\ instructions \in UNION {[1..n -> IxAlphabet] : n \in 0..MaxIxs}
          /\ details_in = None
       \/ /\ instructions = <<>>
          /\ details_in \in {Some(d) : d \in DetailsChoices}
    /\ limits_result = NotRun
    /\ cb_details = ComputeBudgetInstructionDetailsDefault
    /\ cb_next = 0
    /\ cb_result = Ok(<<>>)
    /\ details_limits = NotRun
    /\ rt_limits = NotRun
    /\ builtin_cost = NoBuiltinQuery
    /\ parse_runs = <<>>
    /\ try_from_result = NotRun

\* the transaction is handed to process_compute_budget_instructions
ProcessComputeBudgetInstructions ==
    /\ limits_result = NotRun
    /\ details_in = None
    /\ limits_result' = process_compute_budget_instructions(instructions)
    /\ UNCHANGED <<instructions, cb_details, cb_next, cb_result, details_in, details_limits,
                   rt_limits, builtin_cost, parse_runs,
                   try_from_result>>
    /\ UNCHANGED <<buffer_vars, tracker_vars, fee_vars, sched_vars, cost_model_vars>>

\* the InstructionDetails is handed to sanitize_and_convert_to_compute_budget_limits
SanitizeAndConvert ==
    /\ details_in # None
    /\ details_limits = NotRun
    /\ details_limits' = sanitize_and_convert_to_compute_budget_limits(details_in[1])
    /\ UNCHANGED <<instructions, limits_result, cb_details, cb_next, cb_result, details_in,
                   rt_limits, builtin_cost, parse_runs,
                   try_from_result>>
    /\ UNCHANGED <<buffer_vars, tracker_vars, fee_vars, sched_vars, cost_model_vars>>

\* the InstructionDetails is handed to the sanitizer of runtime-transaction
InstructionDetailsSanitizeAndConvert ==
    /\ details_in # None
    /\ rt_limits = NotRun
    /\ rt_limits' =
           InstructionDetails_sanitize_and_convert_to_compute_budget_limits(details_in[1])
    /\ UNCHANGED <<instructions, limits_result, cb_details, cb_next, cb_result, details_in,
                   details_limits, builtin_cost, parse_runs,
                   try_from_result>>
    /\ UNCHANGED <<buffer_vars, tracker_vars, fee_vars, sched_vars, cost_model_vars>>

\* the next instruction is handed to process_instruction; the caller stops
\* at the first error
ProcessInstruction ==
    /\ cb_result.ok
    /\ cb_next < Len(instructions)
    /\ LET ix == instructions[cb_next + 1]
           r == process_instruction(cb_details, cb_next % 256, ix.program_id, ix)
       IN  /\ cb_result' = IF r.ok THEN Ok(<<>>) ELSE r
           /\ cb_details' = process_instruction_self(cb_details, cb_next % 256,
                                                     ix.program_id, ix)
    /\ cb_next' = cb_next + 1
    /\ UNCHANGED <<instructions, limits_result, details_in, details_limits, rt_limits,
                   builtin_cost, parse_runs,
                   try_from_result>>
    /\ UNCHANGED <<buffer_vars, tracker_vars, fee_vars, sched_vars, cost_model_vars>>

(***************************************************************************)
(* priority_flat_index: Buffer, Batch, Packet and the Index.               *)
(* A batch is named by an id; packets[b] is Batch.packets of batch b       *)
(* (slot index -> Packet); a Packet carries its priority, its slot index   *)
(* and its owner (the weak reference to its batch).                        *)
(***************************************************************************)
MaxBatches == 3

PacketCounts == 0..2

Priorities == 0..2

BatchLimits == 1..2

Packet(priority, idx, owner) == [priority |-> priority, index |-> idx, owner |-> owner]

\* MinMaxHeap::pop_max candidates
pop_max(idx) == {p \in idx : \A q \in idx : q.priority <= p.priority}

\* MinMaxHeap::pop_min: Ord for Packet compares the priority alone, so any
\* packet of least priority may be the one popped
pop_min(idx) == {p \in idx : \A q \in idx : p.priority <= q.priority}

remove_packet_kept(pk, pkt) == pk

\* Batch.packets.remove(&pkt.index)
remove_packet(pk, pkt) ==
    [pk EXCEPT ![pkt.owner] = [i \in (DOMAIN @) \ {pkt.index} |-> @[i]]]

\* the while-let loop of remove_batches_by_priority: every state it can end
\* in, whatever the order in which equal-priority packets are popped
RECURSIVE remove_loop(_, _, _, _, _)
remove_loop(pk, idx, ev, removed_batch_count, num_batches_to_remove) ==
    IF idx = {} THEN {[packets |-> pk, index |-> idx, evicted |-> ev]}
    ELSE UNION {
        LET pk2 == remove_packet(pk, pkt)
            idx2 == idx \ {pkt}
            ev2 == ev \cup {pkt}
            emptied == DOMAIN pk2[pkt.owner] = {}
            count2 == IF emptied THEN removed_batch_count + 1 ELSE removed_batch_count
        IN  IF emptied /\ count2 >= num_batches_to_remove
            THEN {[packets |-> pk2, index |-> idx2, evicted |-> ev2]}
            ELSE remove_loop(pk2, idx2, ev2, count2, num_batches_to_remove)
        : pkt \in pop_min(idx)}

remove_batches_without_retain(buf, pk, idx, num_batches_to_remove) ==
    {[buffer |-> buf, packets |-> o.packets, index |-> o.index, evicted |-> o.evicted]
     : o \in remove_loop(pk, idx, {}, 0, num_batches_to_remove)}

\* Buffer::remove_batches_by_priority: the loop, then retain drops the empty
\* batches from the deque
remove_batches_by_priority(buf, pk, idx, num_batches_to_remove) ==
    {[buffer |-> SelectSeq(buf, LAMBDA b : DOMAIN o.packets[b] # {}),
      packets |-> [b \in {c \in DOMAIN o.packets : DOMAIN o.packets[c] # {}} |-> o.packets[b]],
      index |-> o.index,
      evicted |-> o.evicted]
     : o \in remove_loop(pk, idx, {}, 0, num_batches_to_remove)}

\* Buffer::insert_batch: every state the call can end in
insert_batch(buf, pk, idx, batch_limit, batch) ==
    IF DOMAIN pk[batch] = {}
    THEN {[buffer |-> buf,
           packets |-> [b \in (DOMAIN pk) \ {batch} |-> pk[b]],
           index |-> idx,
           evicted |-> {}]}
    ELSE LET pushed == Append(buf, batch)
             num_batches_to_remove ==
                 IF Len(pushed) > batch_limit THEN Len(pushed) - batch_limit ELSE 0
         IN  IF num_batches_to_remove > 0
             THEN remove_batches_by_priority(pushed, pk, idx, num_batches_to_remove)
             ELSE {[buffer |-> pushed, packets |-> pk, index |-> idx, evicted |-> {}]}

BufferIdle ==
    /\ buffer = <<>>
    /\ packets = <<>>
    /\ index = {}
    /\ made_batch = None
    /\ evicted = {}
    /\ last_insert = None
    /\ next_batch_id = 0

\* Buffer::make_batch: a new batch of count packets, each pushed to the index;
\* packet m has priority m, or a priority drawn at random
MakeBatch ==
    /\ made_batch = None
    /\ next_batch_id < MaxBatches
    /\ \E count \in PacketCounts :
       \E prio \in [0..(count - 1) -> Priorities] :
          LET batch == next_batch_id
              pkts == [m \in 0..(count - 1) |-> Packet(prio[m], m, batch)]
          IN  /\ packets' = [b \in (DOMAIN packets) \cup {batch} |->
                                IF b = batch THEN pkts ELSE packets[b]]
              /\ index' = index \cup {pkts[m] : m \in 0..(count - 1)}
              /\ made_batch' = Some(batch)
    /\ next_batch_id' = next_batch_id + 1
    /\ UNCHANGED <<buffer, evicted, last_insert>>
    /\ UNCHANGED <<budget_vars, tracker_vars, fee_vars, sched_vars, cost_model_vars>>

\* the caller hands the batch it made to insert_batch
InsertBatch ==
    /\ made_batch # None
    /\ \E batch_limit \in BatchLimits :
       \E o \in insert_batch(buffer, packets, index, batch_limit, made_batch[1]) :
          /\ buffer' = o.buffer
          /\ packets' = o.packets
          /\ index' = o.index
          /\ evicted' = o.evicted
          /\ last_insert' = Some([batch |-> made_batch[1],
                                  batch_limit |-> batch_limit,
                                  was_empty |-> DOMAIN packets[made_batch[1]] = {},
                                  len_before |-> Len(buffer),
                                  buffer_before |-> buffer,
                                  index_before |-> index])
    /\ made_batch' = None
    /\ UNCHANGED next_batch_id
    /\ UNCHANGED <<budget_vars, tracker_vars, fee_vars, sched_vars, cost_model_vars>>

(***************************************************************************)
(* cost_tracker: CostTracker.  The sums are u32 sums: on overflow a build  *)
(* with overflow checks panics and a build without them wraps around.      *)
(***************************************************************************)
MaxTrackerOps == 3

TrackerKeys == {"a", "b"}

TrackerKeyLists == {<<>>, <<"a">>, <<"b">>, <<"a", "b">>, <<"a", "a">>}

TrackerLimits == {U32(5), U32(10), U32_MAX}

TrackerCosts == {U32(0), U32(5), U32(6), U32_MAX}

\* what a call that may panic gives: a value, or a panic
Returned(v) == [panic |-> FALSE, value |-> v]

Panic == [panic |-> TRUE]

\* a + b on u32 operands, as the build computes it
checked_add(overflow_checks, a, b) ==
    IF AddCarries(a, b) /\ overflow_checks THEN Panic ELSE Returned(wrapping_add(a, b))

CostTrackerNew(chain_max, package_max, overflow_checks) ==
    [chain_max_cost |-> chain_max,
     package_max_cost |-> package_max,
     chained_costs |-> <<>>,
     package_cost |-> U32(0),
     overflow_checks |-> overflow_checks,
     panicked |-> FALSE]

\* the for loop of would_exceed_limit from the i-th key on
RECURSIVE would_exceed_chain(_, _, _, _)
would_exceed_chain(t, keys, cost, i) ==
    IF i > Len(keys) THEN Returned(FALSE)
    ELSE IF keys[i] \in DOMAIN t.chained_costs
    THEN LET sum == checked_add(t.overflow_checks, t.chained_costs[keys[i]], cost)
         IN  IF sum.panic THEN Panic
             ELSE IF U32Lt(t.chain_max_cost, sum.value) THEN Returned(TRUE)
             ELSE would_exceed_chain(t, keys, cost, i + 1)
    ELSE would_exceed_chain(t, keys, cost, i + 1)

\* CostTracker::would_exceed_limit
would_exceed_limit(t, keys, cost) ==
    LET total == checked_add(t.overflow_checks, t.package_cost, cost)
    IN  IF total.panic THEN Panic
        ELSE IF U32Lt(t.package_max_cost, total.value) THEN Returned(TRUE)
        ELSE IF U32Lt(t.chain_max_cost, cost) THEN Returned(TRUE)
        ELSE would_exceed_chain(t, keys, cost, 1)

\* the for loop of add_transaction from the i-th key on
RECURSIVE add_to_chains(_, _, _, _)
add_to_chains(t, keys, cost, i) ==
    IF i > Len(keys) THEN t
    ELSE LET k == keys[i]
             old == IF k \in DOMAIN t.chained_costs THEN t.chained_costs[k] ELSE U32(0)
             sum == checked_add(t.overflow_checks, old, cost)
         IN  IF sum.panic THEN [t EXCEPT !.panicked = TRUE]
             ELSE add_to_chains(
                      [t EXCEPT !.chained_costs =
                          [a \in (DOMAIN @) \cup {k} |-> IF a = k THEN sum.value ELSE @[a]]],
                      keys, cost, i + 1)

add_transaction_per_key(t, keys, cost) ==
    LET t2 == add_to_chains(t, keys, cost, 1)
        sum == checked_add(t.overflow_checks, t2.package_cost,
                           IF keys = <<>> THEN U32(0) ELSE cost)
    IN  IF t2.panicked THEN t2
        ELSE IF sum.panic THEN [t2 EXCEPT !.panicked = TRUE]
        ELSE [t2 EXCEPT !.package_cost = sum.value]

\* CostTracker::add_transaction
add_transaction(t, keys, cost) ==
    LET t2 == add_to_chains(t, keys, cost, 1)
        sum == checked_add(t.overflow_checks, t2.package_cost, cost)
    IN  IF t2.panicked THEN t2
        ELSE IF sum.panic THEN [t2 EXCEPT !.panicked = TRUE]
        ELSE [t2 EXCEPT !.package_cost = sum.value]

reset_chains_only(t) == [t EXCEPT !.chained_costs = <<>>]

\* CostTracker::reset
reset(t) == [t EXCEPT !.chained_costs = <<>>, !.package_cost = U32(0)]

TrackerIdle ==
    /\ tracker = CostTrackerNew(U32(0), U32(0), FALSE)
    /\ tracker_query = None
    /\ tracker_call = None
    /\ tracker_ops = 0

\* CostTracker::new asserts chain_max <= package_max
TrackerInit ==
    /\ \E chain_max \in TrackerLimits, package_max \in TrackerLimits,
          overflow_checks \in BOOLEAN :
          /\ U32Le(chain_max, package_max)
          /\ tracker = CostTrackerNew(chain_max, package_max, overflow_checks)
    /\ tracker_query = None
    /\ tracker_call = None
    /\ tracker_ops = 0

WouldExceedLimit ==
    /\ ~tracker.panicked
    /\ tracker_ops < MaxTrackerOps
    /\ \E keys \in TrackerKeyLists, cost \in TrackerCosts :
          LET answer == would_exceed_limit(tracker, keys, cost)
          IN  /\ tracker_query' = Some([keys |-> keys,
                                        cost |-> cost,
                                        answer |-> answer,
                                        before |-> tracker])
              /\ tracker' = [tracker EXCEPT !.panicked = answer.panic]
    /\ tracker_ops' = tracker_ops + 1
    /\ UNCHANGED tracker_call
    /\ UNCHANGED <<budget_vars, buffer_vars, fee_vars, sched_vars, cost_model_vars>>

AddTransaction ==
    /\ ~tracker.panicked
    /\ tracker_ops < MaxTrackerOps
    /\ \E keys \in TrackerKeyLists, cost \in TrackerCosts :
          /\ tracker' = add_transaction(tracker, keys, cost)
          /\ tracker_call' = Some([op |-> "add_transaction",
                                   keys |-> keys,
                                   cost |-> cost,
                                   before |-> tracker,
                                   after |-> add_transaction(tracker, keys, cost)])
    /\ tracker_ops' = tracker_ops + 1
    /\ UNCHANGED tracker_query
    /\ UNCHANGED <<budget_vars, buffer_vars, fee_vars, sched_vars, cost_model_vars>>

Reset ==
    /\ ~tracker.panicked
    /\ tracker_ops < MaxTrackerOps
    /\ tracker' = reset(tracker)
    /\ tracker_call' = Some([op |-> "reset",
                             keys |-> <<>>,
                             cost |-> U32(0),
                             before |-> tracker,
                             after |-> reset(tracker)])
    /\ tracker_ops' = tracker_ops + 1
    /\ UNCHANGED tracker_query
    /\ UNCHANGED <<budget_vars, buffer_vars, fee_vars, sched_vars, cost_model_vars>>

(***************************************************************************)
(* prioritization_fee: PrioritizationFee, the fee record of one slot.      *)
(***************************************************************************)
PrioritizationFeeDefault ==
    [min_transaction_fee |-> None,
     min_writable_account_fees |-> <<>>,
     is_finalized |-> FALSE]

Min(a, b) == IF b < a THEN b ELSE a

PrioritizationFee_update_latest(f, transaction_fee, writable_accounts) ==
    IF f.is_finalized THEN f
    ELSE [f EXCEPT
            !.min_transaction_fee = Some(transaction_fee),
            !.min_writable_account_fees =
                [k \in (DOMAIN @) \cup {writable_accounts[i] : i \in DOMAIN writable_accounts} |->
                    IF k \in {writable_accounts[i] : i \in DOMAIN writable_accounts}
                    THEN transaction_fee ELSE @[k]]]

\* PrioritizationFee::update: the block's minimum fee and the minimum fee of
\* each writable account; the observations of a finalized slot are complete
PrioritizationFee_update(f, transaction_fee, writable_accounts) ==
    IF f.is_finalized THEN f
    ELSE [f EXCEPT
            !.min_transaction_fee =
                IF @ = None THEN Some(transaction_fee) ELSE Some(Min(@[1], transaction_fee)),
            !.min_writable_account_fees =
                [k \in (DOMAIN @) \cup {writable_accounts[i] : i \in DOMAIN writable_accounts} |->
                    IF k \in DOMAIN @ THEN
                        IF k \in {writable_accounts[i] : i \in DOMAIN writable_accounts}
                        THEN Min(@[k], transaction_fee) ELSE @[k]
                    ELSE transaction_fee]]

mark_block_completed_unpruned(f) == [f EXCEPT !.is_finalized = TRUE]

\* PrioritizationFee::mark_block_completed: the slot becomes finalized and the
\* accounts whose fee equals the block's minimum fee are pruned
mark_block_completed(f) ==
    IF f.is_finalized THEN f
    ELSE [f EXCEPT
            !.is_finalized = TRUE,
            !.min_writable_account_fees =
                [k \in {a \in DOMAIN @ : @[a] # f.min_transaction_fee[1]} |-> @[k]]]

is_finalized(f) == f.is_finalized

get_min_transaction_fee(f) == f.min_transaction_fee

get_writable_account_fee(f, key) ==
    IF key \in DOMAIN f.min_writable_account_fees
    THEN Some(f.min_writable_account_fees[key]) ELSE None

(***************************************************************************)
(* prioritization_fee_cache: PrioritizationFeeCache and its finalizing     *)
(* thread.                                                                 *)
(***************************************************************************)
MAX_NUM_RECENT_BLOCKS == 150

\* PrioritizationFeeCache.current_sequence_number: AtomicU64::default(),
\* loaded by evict_old_blocks and stored by nothing
current_sequence_number == 0

PrioritizationFeeEntry(entry, sequence_number) ==
    [entry |-> entry, sequence_number |-> sequence_number]

TransactionUpdate(slot, transaction_fee, writable_accounts) ==
    [kind |-> "TransactionUpdate", slot |-> slot, transaction_fee |-> transaction_fee,
     writable_accounts |-> writable_accounts]

BankFrozen(slot) == [kind |-> "BankFrozen", slot |-> slot]

Exit == [kind |-> "Exit"]

\* a receiver that loses the message behind the one it takes
recv_skipping(ch) ==
    [msg |-> Head(ch), rest |-> IF Len(ch) > 1 THEN Tail(Tail(ch)) ELSE <<>>]

\* a receiver that takes the message sent last
recv_newest(ch) == [msg |-> ch[Len(ch)], rest |-> SubSeq(ch, 1, Len(ch) - 1)]

\* Receiver::recv on the unbounded channel: the message sent first, and the
\* channel without it
recv(ch) == [msg |-> Head(ch), rest |-> Tail(ch)]

\* get_prioritization_fee: the cache with an entry for the slot
get_prioritization_fee(c, slot) ==
    IF slot \in DOMAIN c THEN c
    ELSE [s \in (DOMAIN c) \cup {slot} |->
             IF s = slot THEN PrioritizationFeeEntry(PrioritizationFeeDefault, 1) ELSE c[s]]

\* the messages PrioritizationFeeCache::update sends for transactions i.. of the batch
RECURSIVE update(_, _, _)
update(slot, txs, i) ==
    IF i > Len(txs) THEN <<>>
    ELSE IF txs[i].account_locks_ok /\ txs[i].priority # None
    THEN <<TransactionUpdate(slot, txs[i].priority[1], txs[i].writable)>>
             \o update(slot, txs, i + 1)
    ELSE update(slot, txs, i + 1)

\* the entry is looked up and left as it is
update_transactions_unapplied(c, slot, transaction_fee, writable_accounts) ==
    get_prioritization_fee(c, slot)

update_transactions(c, slot, transaction_fee, writable_accounts) ==
    LET c2 == get_prioritization_fee(c, slot)
    IN  [c2 EXCEPT ![slot].entry =
             PrioritizationFee_update(@, transaction_fee, writable_accounts)]

u64_saturating_sub(a, b) == IF a < b THEN 0 ELSE a - b

evict_old_blocks(c, max_age) ==
    [s \in {k \in DOMAIN c :
               u64_saturating_sub(current_sequence_number, c[k].sequence_number) <= max_age}
        |-> c[s]]

\* the scan of get_prioritization_fees without its is_finalized filter
get_prioritization_fees_unfinalized(c) ==
    [s \in {k \in DOMAIN c : get_min_transaction_fee(c[k].entry) # None}
        |-> get_min_transaction_fee(c[s].entry)[1]]

\* get_prioritization_fees: the fee each contributing slot gives (the Vec
\* holds these values in the map's iteration order)
get_prioritization_fees(c) ==
    [s \in {k \in DOMAIN c : /\ is_finalized(c[k].entry)
                             /\ get_min_transaction_fee(c[k].entry) # None}
        |-> get_min_transaction_fee(c[s].entry)[1]]

get_account_prioritization_fees(c, account_key) ==
    [s \in {k \in DOMAIN c : /\ is_finalized(c[k].entry)
                             /\ get_writable_account_fee(c[k].entry, account_key) # None}
        |-> get_writable_account_fee(c[s].entry, account_key)[1]]

(***************************************************************************)
(* The fee cache's specification: callers update and finalize slots, the   *)
(* finalizing thread takes the messages one at a time, and the cache is    *)
(* dropped at the end.                                                     *)
(***************************************************************************)
MaxFeeOps == 3

Slots == {1, 2}

FeeAccounts == {"a", "b", "c"}

FeeTx(priority, account_locks_ok, writable) ==
    [priority |-> priority, account_locks_ok |-> account_locks_ok, writable |-> writable]

FeeTxLists ==
    {<<FeeTx(Some(5), TRUE, <<"a", "b">>)>>,
     <<FeeTx(Some(5), TRUE, <<"a", "b">>), FeeTx(Some(0), TRUE, <<"c">>)>>,
     <<FeeTx(Some(9), TRUE, <<"b", "c">>), FeeTx(Some(1), FALSE, <<"a">>)>>,
     <<FeeTx(None, TRUE, <<"a">>)>>}

\* per slot: the updates the thread applied before it froze the slot, the
\* entry as it was then, the updates sent before finalize_priority_fee was
\* first called, and the messages of the last update call
FeeLogEmpty ==
    [updates |-> {}, frozen |-> FALSE, before_frozen |-> None,
     submitted |-> {}, finalize_called |-> FALSE, last_update |-> None]

NoBank == [slot |-> 0, frozen |-> TRUE, cache_len |-> 0]

EvictLogEmpty == [created |-> <<>>, last |-> None]

FeeIdle ==
    /\ cache = <<>>
    /\ channel = <<>>
    /\ service_running = TRUE
    /\ cache_dropped = FALSE
    /\ fee_log = [s \in Slots |-> FeeLogEmpty]
    /\ fee_ops = 0
    /\ bank = NoBank
    /\ evict_log = EvictLogEmpty

\* PrioritizationFeeCache::update
Update ==
    /\ ~cache_dropped
    /\ fee_ops < MaxFeeOps
    /\ \E slot \in Slots, txs \in FeeTxLists :
          LET sent == update(slot, txs, 1)
          IN  /\ channel' = channel \o sent
              /\ fee_log' = [fee_log EXCEPT
                                ![slot].submitted =
                                    IF fee_log[slot].finalize_called THEN @
                                    ELSE @ \cup {[transaction_fee |-> sent[i].transaction_fee,
                                                  writable_accounts |-> sent[i].writable_accounts] :
                                                     i \in DOMAIN sent},
                                ![slot].last_update = Some(sent)]
    /\ fee_ops' = fee_ops + 1
    /\ UNCHANGED <<cache, service_running, cache_dropped, bank, evict_log>>
    /\ UNCHANGED <<budget_vars, buffer_vars, tracker_vars, sched_vars, cost_model_vars>>

\* PrioritizationFeeCache::finalize_priority_fee
FinalizePriorityFee ==
    /\ ~cache_dropped
    /\ fee_ops < MaxFeeOps
    /\ \E slot \in Slots :
          /\ cache' = evict_old_blocks(cache, MAX_NUM_RECENT_BLOCKS)
          /\ channel' = Append(channel, BankFrozen(slot))
          /\ fee_log' = [fee_log EXCEPT ![slot].finalize_called = TRUE]
    /\ fee_ops' = fee_ops + 1
    /\ UNCHANGED <<service_running, cache_dropped, bank, evict_log>>
    /\ UNCHANGED <<budget_vars, buffer_vars, tracker_vars, sched_vars, cost_model_vars>>

\* one iteration of finalizing_loop
FinalizingLoop ==
    /\ service_running
    /\ channel # <<>>
    /\ LET msg == recv(channel).msg
       IN  CASE msg.kind = "TransactionUpdate" ->
                  /\ cache' = update_transactions(cache, msg.slot, msg.transaction_fee,
                                                  msg.writable_accounts)
                  /\ fee_log' = [fee_log EXCEPT ![msg.slot].updates =
                                    IF fee_log[msg.slot].frozen THEN @
                                    ELSE @ \cup {[transaction_fee |-> msg.transaction_fee,
                                                  writable_accounts |-> msg.writable_accounts]}]
                  /\ UNCHANGED service_running
             [] msg.kind = "BankFrozen" ->
                  /\ cache' = [get_prioritization_fee(cache, msg.slot) EXCEPT
                                  ![msg.slot].entry = mark_block_completed(@)]
                  /\ fee_log' = [fee_log EXCEPT
                                    ![msg.slot].frozen = TRUE,
                                    ![msg.slot].before_frozen =
                                        IF fee_log[msg.slot].frozen THEN @
                                        ELSE Some(get_prioritization_fee(cache, msg.slot)
                                                      [msg.slot].entry)]
                  /\ UNCHANGED service_running
             [] msg.kind = "Exit" ->
                  /\ service_running' = FALSE
                  /\ UNCHANGED <<cache, fee_log>>
    /\ channel' = recv(channel).rest
    /\ UNCHANGED <<cache_dropped, fee_ops, bank, evict_log>>
    /\ UNCHANGED <<budget_vars, buffer_vars, tracker_vars, sched_vars, cost_model_vars>>

\* Drop for PrioritizationFeeCache: Exit is sent, then the thread is joined
Drop ==
    /\ ~cache_dropped
    /\ cache_dropped' = TRUE
    /\ channel' = Append(channel, Exit)
    /\ UNCHANGED <<cache, service_running, fee_log, fee_ops, bank, evict_log>>
    /\ UNCHANGED <<budget_vars, buffer_vars, tracker_vars, sched_vars, cost_model_vars>>

(***************************************************************************)
(* The fee cache over a run of banks: the replay of each bank updates the  *)
(* cache for the bank's slot and then finalizes it, slot after slot, while *)
(* the finalizing thread takes the messages at its own pace.               *)
(***************************************************************************)
MaxBanks == 151

\* the unbounded channel holds at most this many messages
MaxChannel == 2

BankTxLists == {<<FeeTx(Some(5), TRUE, <<"a", "b">>)>>}

BankInit ==
    /\ cache = <<>>
    /\ channel = <<>>
    /\ service_running = TRUE
    /\ cache_dropped = FALSE
    /\ fee_log = [s \in 1..MaxBanks |-> FeeLogEmpty]
    /\ fee_ops = 0
    /\ bank = NoBank
    /\ evict_log = EvictLogEmpty

\* PrioritizationFeeCache::update for the transactions of the next bank
UpdateBank ==
    /\ ~cache_dropped
    /\ bank.frozen
    /\ bank.slot < MaxBanks
    /\ Len(channel) < MaxChannel
    /\ \E txs \in BankTxLists :
          channel' = channel \o update(bank.slot + 1, txs, 1)
    /\ bank' = [bank EXCEPT !.slot = @ + 1, !.frozen = FALSE]
    /\ UNCHANGED <<cache, service_running, cache_dropped, fee_log, fee_ops, evict_log>>
    /\ UNCHANGED <<budget_vars, buffer_vars, tracker_vars, sched_vars, cost_model_vars>>

\* PrioritizationFeeCache::finalize_priority_fee when the bank is frozen
FinalizeBank ==
    /\ ~cache_dropped
    /\ ~bank.frozen
    /\ Len(channel) < MaxChannel
    /\ LET kept == evict_old_blocks(cache, MAX_NUM_RECENT_BLOCKS)
       IN  /\ cache' = kept
           /\ bank' = [bank EXCEPT !.frozen = TRUE, !.cache_len = Cardinality(DOMAIN kept)]
    /\ channel' = Append(channel, BankFrozen(bank.slot))
    /\ UNCHANGED <<service_running, cache_dropped, fee_log, fee_ops, evict_log>>
    /\ UNCHANGED <<budget_vars, buffer_vars, tracker_vars, sched_vars, cost_model_vars>>

(***************************************************************************)
(* The fee cache's entries under direct calls: get_prioritization_fee      *)
(* looks a slot up and creates its entry when there is none, and           *)
(* evict_old_blocks is called with a number of blocks to keep.             *)
(***************************************************************************)
MaxEvictOps == 6

EvictSlots == {1, 3, 7}

EvictAges == {1, 2}

EvictInit ==
    /\ cache = <<>>
    /\ channel = <<>>
    /\ service_running = TRUE
    /\ cache_dropped = FALSE
    /\ fee_log = [s \in Slots |-> FeeLogEmpty]
    /\ fee_ops = 0
    /\ bank = NoBank
    /\ evict_log = EvictLogEmpty

\* PrioritizationFeeCache::get_prioritization_fee called for a slot
GetPrioritizationFee ==
    /\ fee_ops < MaxEvictOps
    /\ \E slot \in EvictSlots :
          /\ cache' = get_prioritization_fee(cache, slot)
          /\ evict_log' = [evict_log EXCEPT !.created =
                              IF slot \in DOMAIN cache THEN @ ELSE Append(@, slot)]
    /\ fee_ops' = fee_ops + 1
    /\ UNCHANGED <<channel, service_running, cache_dropped, fee_log, bank>>
    /\ UNCHANGED <<budget_vars, buffer_vars, tracker_vars, sched_vars, cost_model_vars>>

\* PrioritizationFeeCache::evict_old_blocks called with max_age
EvictOldBlocks ==
    /\ fee_ops < MaxEvictOps
    /\ \E max_age \in EvictAges :
          LET kept == evict_old_blocks(cache, max_age)
          IN  /\ cache' = kept
              /\ evict_log' =
                    [created |-> SelectSeq(evict_log.created, LAMBDA s : s \in DOMAIN kept),
                     last |-> Some([max_age |-> max_age,
                                    created |-> evict_log.created,
                                    before |-> DOMAIN cache,
                                    after |-> DOMAIN kept])]
    /\ fee_ops' = fee_ops + 1
    /\ UNCHANGED <<channel, service_running, cache_dropped, fee_log, bank>>
    /\ UNCHANGED <<budget_vars, buffer_vars, tracker_vars, sched_vars, cost_model_vars>>

(***************************************************************************)
(* The priority-graph scheduler: one schedule pass over the container.     *)
(* A transaction is named by its id (its insertion order); txs maps an id  *)
(* to its priority, write set, read set and cost.                          *)
(***************************************************************************)
NumWorkers == 2

Workers == 0..(NumWorkers - 1)

target_scheduled_cus_per_worker == 2

Tx(priority, writes, reads, cost, tracer) ==
    [priority |-> priority, writes |-> writes, reads |-> reads, cost |-> cost,
     tracer |-> tracer]

\* transactions that never conflict
conflict_never(a, b) == FALSE

\* two transactions conflict: one writes an account the other writes or reads
conflict(a, b) ==
    \/ a.writes \cap (b.writes \cup b.reads) # {}
    \/ b.writes \cap a.reads # {}

\* TransactionStateContainer::pop_highest_priority: the greatest PriorityId
pop_highest_priority(txs, cont) ==
    CHOOSE t \in cont : \A u \in cont :
        \/ txs[t].priority > txs[u].priority
        \/ (txs[t].priority = txs[u].priority /\ t <= u)

\* window fill: up to n entries popped in priority order
RECURSIVE window_fill(_, _, _)
window_fill(txs, cont, n) ==
    IF n = 0 \/ cont = {} THEN <<>>
    ELSE LET t == pop_highest_priority(txs, cont)
         IN  <<t>> \o window_fill(txs, cont \ {t}, n - 1)

\* a bulk filter whose flags are not looked at
pre_graph_filter_kept(cfg, window) == window

\* pre_graph_filter: the entries of the window whose flag is true
pre_graph_filter(cfg, window) ==
    SelectSeq(window, LAMBDA t : t \notin cfg.pre_graph_rejects)

pre_lock_filter(cfg, t) == t \notin cfg.pre_lock_rejects

\* a graph in which every node waits for all the nodes before it
predecessors_all(txs, g, j) == 1..(j - 1)

\* graph construction: the predecessors of the j-th node of the window g.
\* An account T writes gives an edge from its last writer-or-reader, an
\* account T reads gives an edge from its last writer
predecessors(txs, g, j) ==
    LET accessors(k) == {i \in 1..(j - 1) : k \in txs[g[i]].writes \cup txs[g[i]].reads}
        writers(k) == {i \in 1..(j - 1) : k \in txs[g[i]].writes}
        last(S) == CHOOSE i \in S : \A i2 \in S : i2 <= i
    IN  {last(accessors(k)) : k \in {a \in txs[g[j]].writes : accessors(a) # {}}}
        \cup {last(writers(k)) : k \in {a \in txs[g[j]].reads : writers(a) # {}}}

RECURSIVE SumCost(_, _)
SumCost(txs, ids) ==
    IF ids = {} THEN 0
    ELSE LET t == CHOOSE x \in ids : TRUE
         IN  txs[t].cost + SumCost(txs, ids \ {t})

SeqToSet(q) == {q[i] : i \in DOMAIN q}

\* the worker with the least in-flight CU
least_in_flight_worker(worker_cu) ==
    CHOOSE w \in Workers : \A v \in Workers :
        worker_cu[w] < worker_cu[v] \/ (worker_cu[w] = worker_cu[v] /\ w <= v)

\* locks that are granted whoever holds what
try_lock_granted(txs, t, held) == TRUE

\* acquiring the locks of t: granted unless a transaction that was dispatched
\* and is not known to be finished conflicts with t
try_lock(txs, t, held) == \A h \in held : ~conflict(txs[t], txs[h])

ConsumeWork(batch_id, worker, transactions) ==
    [batch_id |-> batch_id, worker |-> worker, transactions |-> transactions]

FinishedConsumeWork(work, retryable_indexes) ==
    [work |-> work, retryable_indexes |-> retryable_indexes]

\* the state of a pass before its dispatch loop
DispatchStart(block_cost, batch_count, worker_cu) ==
    [processed |-> {}, released |-> {}, returned |-> {}, unschedulable |-> {},
     current |-> [w \in Workers |-> <<>>], sent |-> <<>>,
     block_cost |-> block_cost, batch_count |-> batch_count, worker_cu |-> worker_cu]

\* flush: the worker's current batch is sent as a ConsumeWork message
flush(st, w) ==
    [st EXCEPT !.sent = Append(@, ConsumeWork(st.batch_count, w, st.current[w])),
               !.current[w] = <<>>,
               !.batch_count = @ + 1]

\* the dispatch loop over the window g; held holds the ids dispatched by
\* earlier passes whose completion has not been drained
RECURSIVE dispatch_loop(_, _, _, _, _)
dispatch_loop(cfg, txs, g, held, st) ==
    LET ready == {j \in (1..Len(g)) \ st.processed :
                     predecessors(txs, g, j) \subseteq st.released}
        in_flight_cus == SumCost(txs, held \cup {g[j] : j \in st.released})
    IN  IF ready = {} \/ in_flight_cus > cfg.max_scheduled_cus THEN st
        ELSE LET j == CHOOSE r \in ready : \A r2 \in ready : r <= r2
                 t == g[j]
                 seen == [st EXCEPT !.processed = @ \cup {j}]
             IN  IF ~pre_lock_filter(cfg, t)
                 THEN dispatch_loop(cfg, txs, g, held,
                                    [seen EXCEPT !.returned = @ \cup {t}])
                 ELSE IF st.block_cost + txs[t].cost > cfg.block_limit
                         \/ ~try_lock(txs, t, held \cup {g[i] : i \in st.released})
                 THEN dispatch_loop(cfg, txs, g, held,
                                    [seen EXCEPT !.unschedulable = @ \cup {t}])
                 ELSE LET w == least_in_flight_worker(st.worker_cu)
                          added == [seen EXCEPT
                                      !.released = @ \cup {j},
                                      !.current[w] = Append(@, t),
                                      !.block_cost = @ + txs[t].cost,
                                      !.worker_cu[w] = @ + txs[t].cost]
                          full == SumCost(txs, SeqToSet(added.current[w]))
                                      >= target_scheduled_cus_per_worker
                      IN  dispatch_loop(cfg, txs, g, held,
                                        IF full THEN flush(added, w) ELSE added)

\* the batches still open when the dispatch loop ends are sent
RECURSIVE flush_all(_, _)
flush_all(st, w) ==
    IF w >= NumWorkers THEN st
    ELSE flush_all(IF st.current[w] # <<>> THEN flush(st, w) ELSE st, w + 1)

\* a pass that puts nothing back
unscheduled_none(g, dispatched) == {}

\* the transactions of the graph the pass did not dispatch: the container
\* retains them for the next pass
unscheduled(g, dispatched) == SeqToSet(g) \ dispatched

\* a drain that releases no lock
still_in_flight_kept(flight, drained) == flight

\* any completion releases the locks of every batch
still_in_flight_any(flight, drained) == IF drained = {} THEN flight ELSE {}

\* drain of the completions channel: the locks of a batch are released when
\* its own FinishedConsumeWork has arrived
still_in_flight(flight, drained) == {b \in flight : b.batch_id \notin drained}

\* one schedule pass; drained holds the batches whose FinishedConsumeWork the
\* pass takes from the completions channel
schedule(cfg, txs, cont, sch, flight, drained) ==
    LET window == window_fill(txs, cont, cfg.look_ahead_window_size)
        g == pre_graph_filter(cfg, window)
        still == still_in_flight(flight, drained)
        held == UNION {SeqToSet(b.transactions) : b \in still}
        worker_cu == [w \in Workers |->
                         SumCost(txs, UNION {SeqToSet(b.transactions) :
                                                b \in {c \in still : c.worker = w}})]
        st == flush_all(dispatch_loop(cfg, txs, g, held,
                                      DispatchStart(sch.block_cost, sch.batch_count,
                                                    worker_cu)), 0)
        dispatched == {g[j] : j \in st.released}
    IN  [window |-> window,
         graph |-> g,
         dispatched |-> dispatched,
         returned |-> st.returned,
         unschedulable |-> st.unschedulable,
         sent |-> st.sent,
         container |-> (cont \ SeqToSet(window)) \cup unscheduled(g, dispatched),
         scheduler |-> [block_cost |-> st.block_cost, batch_count |-> st.batch_count],
         in_flight |-> still \cup SeqToSet(st.sent),
         num_scheduled |-> Cardinality(dispatched),
         num_unschedulable |-> Cardinality(st.unschedulable)]

\* TransactionStateContainer::with_capacity: entry store, priority index and
\* the id the next entry gets
with_capacity(capacity) ==
    [capacity |-> capacity, id_to_transaction_state |-> <<>>, priority_queue |-> {},
     next_id |-> 0]

remaining_capacity(c) == c.capacity - Cardinality(c.priority_queue)

\* the least PriorityId of a set of ids: the lowest priority, and of equal
\* priorities the one inserted last
pop_min_id(c, ids) ==
    CHOOSE t \in ids : \A u \in ids :
        \/ c.id_to_transaction_state[t].priority < c.id_to_transaction_state[u].priority
        \/ /\ c.id_to_transaction_state[t].priority = c.id_to_transaction_state[u].priority
           /\ t >= u

\* an index that takes itself for full one entry early
push_id_into_queue_early(c, id) ==
    IF remaining_capacity(c) <= 1
    THEN LET popped == pop_min_id(c, c.priority_queue \cup {id})
         IN  [container |->
                 [c EXCEPT !.priority_queue = (@ \cup {id}) \ {popped},
                           !.id_to_transaction_state =
                               [t \in (DOMAIN @) \ {popped} |-> @[t]]],
              displaced |-> TRUE]
    ELSE [container |-> [c EXCEPT !.priority_queue = @ \cup {id}], displaced |-> FALSE]

\* the id enters the priority index; when the index is full the least
\* PriorityId is popped and its entry removed
push_id_into_queue(c, id) ==
    IF remaining_capacity(c) = 0
    THEN LET popped == pop_min_id(c, c.priority_queue \cup {id})
         IN  [container |->
                 [c EXCEPT !.priority_queue = (@ \cup {id}) \ {popped},
                           !.id_to_transaction_state =
                               [t \in (DOMAIN @) \ {popped} |-> @[t]]],
              displaced |-> TRUE]
    ELSE [container |-> [c EXCEPT !.priority_queue = @ \cup {id}], displaced |-> FALSE]

\* TransactionStateContainer::insert_new_transaction: the container after the
\* call and whether an entry was displaced
insert_new_transaction(c, priority, cost) ==
    LET id == c.next_id
        entry == [priority |-> priority, cost |-> cost]
        stored == [c EXCEPT !.next_id = @ + 1,
                            !.id_to_transaction_state =
                                [t \in (DOMAIN @) \cup {id} |->
                                    IF t = id THEN entry ELSE @[t]]]
    IN  push_id_into_queue(stored, id)

(***************************************************************************)
(* The scheduler's specification: the caller fills the container, calls    *)
(* schedule while the container is not empty, and each worker answers the  *)
(* ConsumeWork messages of its channel.                                    *)
(***************************************************************************)
MaxTxs == 3

MaxPasses == 4

TxShapes ==
    {Tx(3, {"x"}, {}, 1, FALSE),
     Tx(2, {"x"}, {}, 0, FALSE),
     Tx(1, {"y"}, {"x"}, 0, FALSE),
     Tx(2, {"y"}, {}, 1, FALSE),
     Tx(1, {"z"}, {}, 1, TRUE),
     Tx(4, {"z"}, {}, 1, TRUE)}

SchedConfig(pre_graph_rejects, pre_lock_rejects, block_limit, max_scheduled_cus, window) ==
    [pre_graph_rejects |-> pre_graph_rejects,
     pre_lock_rejects |-> pre_lock_rejects,
     block_limit |-> block_limit,
     max_scheduled_cus |-> max_scheduled_cus,
     look_ahead_window_size |-> window]

\* filters that accept everything and limits no workload reaches, and the
\* configurations that differ from it in one respect
SchedConfigs ==
    {SchedConfig({}, {}, 9, 9, 4),
     SchedConfig({1}, {}, 9, 9, 4),
     SchedConfig({}, {2}, 9, 9, 4),
     SchedConfig({1}, {2}, 9, 9, 4),
     SchedConfig({}, {}, 1, 9, 4),
     SchedConfig({}, {}, 9, 0, 4),
     SchedConfig({}, {}, 9, 9, 2)}

BenchStatsDefault ==
    [num_of_scheduling |-> 0, num_scheduled |-> 0, num_works |-> 0,
     num_transaction |-> 0, tracer_placement |-> 0]

NoContainer ==
    [container |-> with_capacity(0), returned |-> <<>>, before |-> None, last_priority |-> 0]

SchedIdle ==
    /\ sched_config = [transactions |-> <<>>, filters |-> SchedConfig({}, {}, 0, 0, 0)]
    /\ container = {}
    /\ scheduler = [block_cost |-> 0, batch_count |-> 0]
    /\ work_channels = [w \in Workers |-> <<>>]
    /\ finished_channel = <<>>
    /\ in_flight = {}
    /\ sched_stats = BenchStatsDefault
    /\ last_pass = None
    /\ state_container = NoContainer

\* BenchContainer::fill_container: every transaction received is in the
\* container before the first pass
SchedInit ==
    /\ \E txs \in UNION {[1..n -> TxShapes] : n \in 0..MaxTxs}, cfg \in SchedConfigs :
          /\ sched_config = [transactions |-> txs, filters |-> cfg]
          /\ container = DOMAIN txs
    /\ scheduler = [block_cost |-> 0, batch_count |-> 0]
    /\ work_channels = [w \in Workers |-> <<>>]
    /\ finished_channel = <<>>
    /\ in_flight = {}
    /\ sched_stats = BenchStatsDefault
    /\ last_pass = None
    /\ state_container = NoContainer

\* one iteration of the loop of BenchEnv::run: a schedule pass, then the stats
Run ==
    /\ container # {}
    /\ sched_stats.num_of_scheduling < MaxPasses
    /\ LET drained == {finished_channel[i].work.batch_id : i \in DOMAIN finished_channel}
           result == schedule(sched_config.filters, sched_config.transactions, container,
                              scheduler, in_flight, drained)
       IN  /\ container' = result.container
           /\ scheduler' = result.scheduler
           /\ in_flight' = result.in_flight
           /\ work_channels' =
                 [w \in Workers |->
                     work_channels[w] \o SelectSeq(result.sent, LAMBDA b : b.worker = w)]
           /\ sched_stats' = [sched_stats EXCEPT
                                !.num_of_scheduling = @ + 1,
                                !.num_scheduled = @ + result.num_scheduled]
           /\ last_pass' = Some([container_before |-> container,
                                 in_flight_before |-> in_flight,
                                 scheduler_before |-> scheduler,
                                 drained |-> drained,
                                 result |-> result])
    /\ finished_channel' = <<>>
    /\ UNCHANGED <<sched_config, state_container>>
    /\ UNCHANGED <<budget_vars, buffer_vars, tracker_vars, fee_vars, cost_model_vars>>

is_tracer(tx) == tx.tracer

\* the position (1-based) of the first tracer in the batch, or 0
first_tracer(txs, transactions) ==
    LET at == {i \in DOMAIN transactions : is_tracer(txs[transactions[i]])}
    IN  IF at = {} THEN 0 ELSE CHOOSE i \in at : \A i2 \in at : i <= i2

\* PingPong::service_loop: one iteration of a worker's loop
ServiceLoop ==
    \E w \in Workers :
        /\ work_channels[w] # <<>>
        /\ LET work == Head(work_channels[w])
               tx_count == sched_stats.num_transaction
               placed == first_tracer(sched_config.transactions, work.transactions)
           IN  /\ sched_stats' = [sched_stats EXCEPT
                                    !.num_works = @ + 1,
                                    !.num_transaction = @ + Len(work.transactions),
                                    !.tracer_placement =
                                        IF @ = 0 /\ placed # 0 THEN tx_count + placed ELSE @]
               /\ finished_channel' = Append(finished_channel, FinishedConsumeWork(work, <<>>))
        /\ work_channels' = [work_channels EXCEPT ![w] = Tail(@)]
        /\ UNCHANGED <<sched_config, container, scheduler, in_flight, last_pass,
                       state_container>>
        /\ UNCHANGED <<budget_vars, buffer_vars, tracker_vars, fee_vars, cost_model_vars>>

(***************************************************************************)
(* BenchContainer: a container of some capacity is filled, one             *)
(* insert_new_transaction for each transaction received.                   *)
(***************************************************************************)
MaxCapacity == 3

MaxInserts == 4

ContainerPriorities == {1, 2, 3}

TEST_TRANSACTION_COST == 0

\* BenchContainer::new
ContainerInit ==
    /\ sched_config = [transactions |-> <<>>, filters |-> SchedConfig({}, {}, 0, 0, 0)]
    /\ container = {}
    /\ scheduler = [block_cost |-> 0, batch_count |-> 0]
    /\ work_channels = [w \in Workers |-> <<>>]
    /\ finished_channel = <<>>
    /\ in_flight = {}
    /\ sched_stats = BenchStatsDefault
    /\ last_pass = None
    /\ \E capacity \in 0..MaxCapacity :
          state_container = [NoContainer EXCEPT !.container = with_capacity(capacity)]

\* one iteration of the loop of BenchContainer::fill_container
InsertNewTransaction ==
    /\ Len(state_container.returned) < MaxInserts
    /\ \E compute_unit_price \in ContainerPriorities :
          LET out == insert_new_transaction(state_container.container, compute_unit_price,
                                            TEST_TRANSACTION_COST)
          IN  state_container' =
                  [container |-> out.container,
                   returned |-> Append(state_container.returned, out.displaced),
                   before |-> Some(state_container.container),
                   last_priority |-> compute_unit_price]
    /\ UNCHANGED <<sched_config, container, scheduler, work_channels, finished_channel,
                   in_flight, sched_stats, last_pass>>
    /\ UNCHANGED <<budget_vars, buffer_vars, tracker_vars, fee_vars, cost_model_vars>>

(***************************************************************************)
(* cost_model: CostModel, which owns a CostTracker and prices a            *)
(* transaction by the programs of its instructions.                        *)
(***************************************************************************)
DEFAULT_PROGRAM_COST == U32(500)

CHAIN_MAX_COST == U32(100000)

BLOCK_MAX_COST == U32(100000000)

\* cost_metrics of new_with_config, for the programs the transactions use
cost_metrics ==
    [p \in {"system_program", "Vote", "bpf_loader"} |->
        CASE p = "system_program" -> U32(1)
          [] p = "Vote" -> U32(5)
          [] p = "bpf_loader" -> U32(1000)]

\* CostModel::new_with_config
new_with_config(chain_max, block_max, overflow_checks) ==
    [cost_tracker |-> CostTrackerNew(chain_max, block_max, overflow_checks),
     current_bank_slot |-> 0]

\* CostModel::find_instruction_cost
find_instruction_cost(program_key) ==
    IF program_key \in DOMAIN cost_metrics THEN cost_metrics[program_key]
    ELSE DEFAULT_PROGRAM_COST

\* CostModel::find_transaction_cost: the loop from the i-th instruction on,
\* cost += instruction_cost
RECURSIVE find_transaction_cost_from(_, _, _, _)
find_transaction_cost_from(overflow_checks, transaction, i, cost) ==
    IF i > Len(transaction.instructions) THEN Returned(cost)
    ELSE LET sum == checked_add(overflow_checks, cost,
                                find_instruction_cost(transaction.instructions[i]))
         IN  IF sum.panic THEN Panic
             ELSE find_transaction_cost_from(overflow_checks, transaction, i + 1, sum.value)

find_transaction_cost(overflow_checks, transaction) ==
    find_transaction_cost_from(overflow_checks, transaction, 1, U32(0))

\* CostModel::find_writable_keys
find_writable_keys(transaction) ==
    LET writable == SelectSeq(transaction.account_keys, LAMBDA k : k.is_writable)
    IN  [i \in DOMAIN writable |-> writable[i].key]

try_to_add_transaction_always(m, transaction) ==
    LET writable_accounts == find_writable_keys(transaction)
        transaction_cost == find_transaction_cost(m.cost_tracker.overflow_checks, transaction)
    IN  IF transaction_cost.panic
        THEN [model |-> [m EXCEPT !.cost_tracker.panicked = TRUE], result |-> Panic]
        ELSE LET added == add_transaction(m.cost_tracker, writable_accounts,
                                          transaction_cost.value)
             IN  [model |-> [m EXCEPT !.cost_tracker = added],
                  result |-> IF added.panicked THEN Panic
                             ELSE Returned(Some(added.package_cost))]

\* a call whose addition is lost
try_to_add_transaction_unrecorded(m, transaction) ==
    [model |-> m, result |-> Returned(Some(m.cost_tracker.package_cost))]

\* CostModel::try_to_add_transaction: the cost model as the call leaves it and
\* what the call returned
try_to_add_transaction(m, transaction) ==
    LET writable_accounts == find_writable_keys(transaction)
        transaction_cost == find_transaction_cost(m.cost_tracker.overflow_checks, transaction)
    IN  IF transaction_cost.panic
        THEN [model |-> [m EXCEPT !.cost_tracker.panicked = TRUE], result |-> Panic]
        ELSE LET exceeds == would_exceed_limit(m.cost_tracker, writable_accounts,
                                               transaction_cost.value)
             IN  IF exceeds.panic
                 THEN [model |-> [m EXCEPT !.cost_tracker.panicked = TRUE], result |-> Panic]
                 ELSE IF exceeds.value
                 THEN [model |-> m, result |-> Returned(None)]
                 ELSE LET added == add_transaction(m.cost_tracker, writable_accounts,
                                                   transaction_cost.value)
                      IN  [model |-> [m EXCEPT !.cost_tracker = added],
                           result |-> IF added.panicked THEN Panic
                                      ELSE Returned(Some(added.package_cost))]

\* CostModel::reset_if_new_bank
reset_if_new_bank(m, slot) ==
    IF slot # m.current_bank_slot
    THEN [m EXCEPT !.cost_tracker = reset(@), !.current_bank_slot = slot]
    ELSE m

MaxCostModelOps == 3

CostModelSlots == {0, 1}

\* (chain_max, block_max) given to new_with_config; the first is that of new
CostModelConfigs ==
    {<<CHAIN_MAX_COST, BLOCK_MAX_COST>>,
     <<DEFAULT_PROGRAM_COST, DEFAULT_PROGRAM_COST>>,
     <<DEFAULT_PROGRAM_COST, U32(1500)>>,
     <<U32(1000), U32(1500)>>}

AccountKey(key, is_writable) == [key |-> key, is_writable |-> is_writable]

\* account keys of a message with their write locks, and the program of each
\* instruction
CostModelTransactions ==
    {[account_keys |-> keys, instructions |-> programs] :
        keys \in {<<AccountKey("a", TRUE)>>,
                  <<AccountKey("a", TRUE), AccountKey("a", TRUE)>>,
                  <<AccountKey("a", TRUE), AccountKey("b", TRUE)>>,
                  <<AccountKey("b", TRUE), AccountKey("a", FALSE)>>,
                  <<AccountKey("a", FALSE)>>},
        programs \in {<<>>, <<"system_program">>, <<"other">>, <<"bpf_loader">>,
                      <<"other", "other">>, <<"other", "Vote">>}}

NoThreads == [transactions |-> <<>>, results |-> <<>>]

CostModelIdle ==
    /\ cost_model = new_with_config(U32(0), U32(0), FALSE)
    /\ cost_model_try = None
    /\ cost_model_ops = 0
    /\ threads = NoThreads

CostModelInit ==
    /\ \E config \in CostModelConfigs, overflow_checks \in BOOLEAN :
          cost_model = new_with_config(config[1], config[2], overflow_checks)
    /\ cost_model_try = None
    /\ cost_model_ops = 0
    /\ threads = NoThreads

TryToAddTransaction ==
    /\ ~cost_model.cost_tracker.panicked
    /\ cost_model_ops < MaxCostModelOps
    /\ \E transaction \in CostModelTransactions :
          LET out == try_to_add_transaction(cost_model, transaction)
          IN  /\ cost_model' = out.model
              /\ cost_model_try' = Some([transaction |-> transaction,
                                         result |-> out.result,
                                         before |-> cost_model.cost_tracker,
                                         after |-> out.model.cost_tracker])
    /\ cost_model_ops' = cost_model_ops + 1
    /\ UNCHANGED threads
    /\ UNCHANGED <<budget_vars, buffer_vars, tracker_vars, fee_vars, sched_vars>>

ResetIfNewBank ==
    /\ ~cost_model.cost_tracker.panicked
    /\ cost_model_ops < MaxCostModelOps
    /\ \E slot \in CostModelSlots : cost_model' = reset_if_new_bank(cost_model, slot)
    /\ cost_model_ops' = cost_model_ops + 1
    /\ UNCHANGED <<cost_model_try, threads>>
    /\ UNCHANGED <<budget_vars, buffer_vars, tracker_vars, fee_vars, sched_vars>>

(***************************************************************************)
(* A CostModel shared by threads behind a mutex: each thread has its own   *)
(* transaction and calls try_to_add_transaction once while it holds the    *)
(* lock; the threads take the lock in any order.                           *)
(***************************************************************************)
MaxThreads == 3

SharedTransactions ==
    {[account_keys |-> keys, instructions |-> programs] :
        keys \in {<<AccountKey("a", TRUE), AccountKey("b", TRUE)>>,
                  <<AccountKey("b", TRUE), AccountKey("a", FALSE)>>,
                  <<AccountKey("a", FALSE)>>},
        programs \in {<<"other">>, <<"other", "other">>}}

\* (chain_max, block_max) of the shared cost model
SharedConfigs ==
    {<<DEFAULT_PROGRAM_COST, U32(1500)>>,
     <<U32(1000), U32(1500)>>}

SharedInit ==
    /\ \E config \in SharedConfigs, overflow_checks \in BOOLEAN :
          cost_model = new_with_config(config[1], config[2], overflow_checks)
    /\ cost_model_try = None
    /\ cost_model_ops = 0
    /\ \E n \in 1..MaxThreads : \E txs \in [1..n -> SharedTransactions] :
          threads = [transactions |-> txs, results |-> [i \in 1..n |-> NotRun]]

\* one thread: cost_model.lock().unwrap().try_to_add_transaction(&transaction)
ThreadTryToAdd ==
    /\ ~cost_model.cost_tracker.panicked
    /\ \E i \in DOMAIN threads.transactions :
          /\ threads.results[i] = NotRun
          /\ LET out == try_to_add_transaction(cost_model, threads.transactions[i])
             IN  /\ cost_model' = out.model
                 /\ cost_model_try' = Some([transaction |-> threads.transactions[i],
                                            result |-> out.result,
                                            before |-> cost_model.cost_tracker,
                                            after |-> out.model.cost_tracker])
                 /\ threads' = [threads EXCEPT !.results[i] = out.result]
    /\ UNCHANGED cost_model_ops
    /\ UNCHANGED <<budget_vars, buffer_vars, tracker_vars, fee_vars, sched_vars>>

(***************************************************************************)
(* The builtin cost table is asked for the cost of a program under a       *)
(* feature set.                                                            *)
(***************************************************************************)
BuiltinProgramIds == (DOMAIN BuiltinCosts) \cup {"dummmy", "feature_gate"}

Features ==
    {"migrate_stake_program_to_core_bpf", "migrate_config_program_to_core_bpf",
     "migrate_address_lookup_table_program_to_core_bpf", "other_feature"}

BuiltinInit ==
    /\ instructions = <<>>
    /\ limits_result = NotRun
    /\ cb_details = ComputeBudgetInstructionDetailsDefault
    /\ cb_next = 0
    /\ cb_result = Ok(<<>>)
    /\ details_in = None
    /\ details_limits = NotRun
    /\ rt_limits = NotRun
    /\ parse_runs = <<>>
    /\ try_from_result = NotRun
    /\ \E program_id \in BuiltinProgramIds, feature_set \in SUBSET Features :
          builtin_cost = [program_id |-> program_id, feature_set |-> feature_set,
                          result |-> NotRun]

GetBuiltinInstructionCost ==
    /\ builtin_cost.result = NotRun
    /\ builtin_cost' =
           [builtin_cost EXCEPT !.result =
               Returned(get_builtin_instruction_cost(builtin_cost.program_id,
                                                     builtin_cost.feature_set))]
    /\ UNCHANGED <<instructions, limits_result, cb_details, cb_next, cb_result, details_in,
                   details_limits, rt_limits, parse_runs,
                   try_from_result>>
    /\ UNCHANGED <<buffer_vars, tracker_vars, fee_vars, sched_vars, cost_model_vars>>

(***************************************************************************)
(* The parser is run again and again, on the same sequence or on another.  *)
(***************************************************************************)
MaxRuns == 3

MaxParsedIxs == 2

ParsedIxs ==
    {Ix(ComputeBudgetProgram, "RequestHeapFrame", U32(40 * 1024)),
     Ix(ComputeBudgetProgram, "Undecodable", U32(0)),
     Ix(SystemProgram, "Transfer", U32(2)),
     Ix(UserProgram, "Opaque", U32(0))}

ParserInit ==
    /\ instructions = <<>>
    /\ limits_result = NotRun
    /\ cb_details = ComputeBudgetInstructionDetailsDefault
    /\ cb_next = 0
    /\ cb_result = Ok(<<>>)
    /\ details_in = None
    /\ details_limits = NotRun
    /\ rt_limits = NotRun
    /\ builtin_cost = NoBuiltinQuery
    /\ parse_runs = <<>>
    /\ try_from_result = NotRun

\* get_instruction_details is called on a sequence of instructions
GetInstructionDetails ==
    /\ Len(parse_runs) < MaxRuns
    /\ \E ixs \in UNION {[1..n -> ParsedIxs] : n \in 0..MaxParsedIxs} :
          /\ instructions' = ixs
          /\ parse_runs' = Append(parse_runs, [instructions |-> ixs,
                                               result |-> get_instruction_details(ixs)])
    /\ UNCHANGED <<limits_result, cb_details, cb_next, cb_result, details_in, details_limits,
                   rt_limits, builtin_cost, try_from_result>>
    /\ UNCHANGED <<buffer_vars, tracker_vars, fee_vars, sched_vars, cost_model_vars>>

\* instructions of builtin programs, of a program whose key shares its first
\* byte with a builtin's, and of one whose first byte no builtin key has
TryFromIxs ==
    {Ix(ComputeBudgetProgram, "RequestHeapFrame", U32(32 * 1024)),
     Ix(ComputeBudgetProgram, "RequestHeapFrame", U32(40 * 1024 + 1)),
     Ix(ComputeBudgetProgram, "SetComputeUnitLimit", U32(1)),
     Ix(ComputeBudgetProgram, "Undecodable", U32(0)),
     Ix(SystemProgram, "Transfer", U32(2)),
     Ix(StakeProgram, "Opaque", U32(0)),
     Ix(TokenProgram, "Opaque", U32(0)),
     Ix(UserProgram, "Opaque", U32(0))}

TryFromInit ==
    /\ instructions \in UNION {[1..n -> TryFromIxs] : n \in 0..MaxIxs}
    /\ limits_result = NotRun
    /\ cb_details = ComputeBudgetInstructionDetailsDefault
    /\ cb_next = 0
    /\ cb_result = Ok(<<>>)
    /\ details_in = None
    /\ details_limits = NotRun
    /\ rt_limits = NotRun
    /\ builtin_cost = NoBuiltinQuery
    /\ parse_runs = <<>>
    /\ try_from_result = NotRun

\* the transaction's instructions are handed to InstructionDetails::try_from
TryFrom ==
    /\ try_from_result = NotRun
    /\ try_from_result' = try_from(instructions)
    /\ UNCHANGED <<instructions, limits_result, cb_details, cb_next, cb_result, details_in,
                   details_limits, rt_limits, builtin_cost, parse_runs>>
    /\ UNCHANGED <<buffer_vars, tracker_vars, fee_vars, sched_vars, cost_model_vars>>

(***************************************************************************)
(* Specifications, one per subsystem.                                      *)
(***************************************************************************)
BudgetNext ==
    \/ ProcessComputeBudgetInstructions
    \/ SanitizeAndConvert
    \/ InstructionDetailsSanitizeAndConvert
    \/ ProcessInstruction

InitBudget ==
    BudgetInit /\ BufferIdle /\ TrackerIdle /\ FeeIdle /\ SchedIdle /\ CostModelIdle

SpecBudget ==
    InitBudget /\ [][BudgetNext]_vars

TryFromNext ==
    \/ TryFrom

InitTryFrom ==
    TryFromInit /\ BufferIdle /\ TrackerIdle /\ FeeIdle /\ SchedIdle /\ CostModelIdle

SpecTryFrom ==
    InitTryFrom /\ [][TryFromNext]_vars

BuiltinNext ==
    \/ GetBuiltinInstructionCost

InitBuiltin ==
    BuiltinInit /\ BufferIdle /\ TrackerIdle /\ FeeIdle /\ SchedIdle /\ CostModelIdle

SpecBuiltin ==
    InitBuiltin /\ [][BuiltinNext]_vars

ParserNext ==
    \/ GetInstructionDetails

InitParser ==
    ParserInit /\ BufferIdle /\ TrackerIdle /\ FeeIdle /\ SchedIdle /\ CostModelIdle

SpecParser ==
    InitParser /\ [][ParserNext]_vars

BufferNext ==
    \/ MakeBatch
    \/ InsertBatch

InitBuffer ==
    BudgetIdle /\ BufferIdle /\ TrackerIdle /\ FeeIdle /\ SchedIdle /\ CostModelIdle

SpecBuffer ==
    InitBuffer /\ [][BufferNext]_vars

TrackerNext ==
    \/ WouldExceedLimit
    \/ AddTransaction
    \/ Reset

InitTracker ==
    BudgetIdle /\ BufferIdle /\ TrackerInit /\ FeeIdle /\ SchedIdle /\ CostModelIdle

SpecTracker ==
    InitTracker /\ [][TrackerNext]_vars

FeeNext ==
    \/ Update
    \/ FinalizePriorityFee
    \/ FinalizingLoop
    \/ Drop

InitFee ==
    BudgetIdle /\ BufferIdle /\ TrackerIdle /\ FeeIdle /\ SchedIdle /\ CostModelIdle

SpecFee ==
    InitFee /\ [][FeeNext]_vars

\* the finalizing thread keeps running: a message in the channel is
\* eventually taken
SpecFeeDrop ==
    InitFee /\ [][FeeNext]_vars /\ WF_vars(FinalizingLoop)

SchedNext ==
    \/ Run
    \/ ServiceLoop

CostModelNext ==
    \/ TryToAddTransaction
    \/ ResetIfNewBank

InitCostModel ==
    BudgetIdle /\ BufferIdle /\ TrackerIdle /\ FeeIdle /\ SchedIdle /\ CostModelInit

SpecCostModel ==
    InitCostModel /\ [][CostModelNext]_vars

ContainerNext ==
    \/ InsertNewTransaction

InitContainer ==
    BudgetIdle /\ BufferIdle /\ TrackerIdle /\ FeeIdle /\ ContainerInit /\ CostModelIdle

SpecContainer ==
    InitContainer /\ [][ContainerNext]_vars

SharedNext ==
    \/ ThreadTryToAdd

InitShared ==
    BudgetIdle /\ BufferIdle /\ TrackerIdle /\ FeeIdle /\ SchedIdle /\ SharedInit

SpecShared ==
    InitShared /\ [][SharedNext]_vars

BankNext ==
    \/ UpdateBank
    \/ FinalizeBank
    \/ FinalizingLoop

InitBank ==
    BudgetIdle /\ BufferIdle /\ TrackerIdle /\ BankInit /\ SchedIdle /\ CostModelIdle

SpecBank ==
    InitBank /\ [][BankNext]_vars

EvictNext ==
    \/ GetPrioritizationFee
    \/ EvictOldBlocks

InitEvict ==
    BudgetIdle /\ BufferIdle /\ TrackerIdle /\ EvictInit /\ SchedIdle /\ CostModelIdle

SpecEvict ==
    InitEvict /\ [][EvictNext]_vars

InitSched ==
    BudgetIdle /\ BufferIdle /\ TrackerIdle /\ FeeIdle /\ SchedInit /\ CostModelIdle

SpecSched ==
    InitSched /\ [][SchedNext]_vars

(***************************************************************************)
(* Properties of the compute-budget parser and sanitizer.                  *)
(***************************************************************************)
\* the value of a u32 below 2^31
ToInt(a) == a[1] * Half + a[2]

RequestVariants ==
    {"RequestHeapFrame", "SetComputeUnitLimit", "SetComputeUnitPrice",
     "SetLoadedAccountsDataSizeLimit"}

IsRequest(ix) ==
    ix.program_id = ComputeBudgetProgram /\ ix.data.variant \in RequestVariants

\* b is a heap size the library allows
HeapOk(b) ==
    /\ 32 * 1024 <= ToInt(b)
    /\ ToInt(b) <= 256 * 1024
    /\ ToInt(b) % 1024 = 0

\* positions (1-based) of the instructions that repeat the variant of an
\* earlier compute-budget instruction
Repeats(ixs) ==
    {j \in DOMAIN ixs :
        /\ IsRequest(ixs[j])
        /\ \E i \in 1..(j - 1) :
              IsRequest(ixs[i]) /\ ixs[i].data.variant = ixs[j].data.variant}

\* the compute-budget instruction at position k is rejected on its own: it
\* decodes to no supported variant, or it requests a heap size not allowed
RejectedAlone(ixs, k) ==
    /\ ixs[k].program_id = ComputeBudgetProgram
    /\ \/ ixs[k].data.variant \notin RequestVariants
       \/ ixs[k].data.variant = "RequestHeapFrame" /\ ~HeapOk(ixs[k].data.value)

FirstOf(S) == CHOOSE j \in S : \A j2 \in S : j <= j2

\* C1 (as stated): whenever two compute-budget instructions of the same
\* variant occur at indices i < j, the parser returns DuplicateInstruction(j)
\* for such a pair.
C1_AsStated ==
    (limits_result # NotRun /\ Repeats(instructions) # {}) =>
        \E j \in Repeats(instructions) :
            limits_result = Err(DuplicateInstruction(j - 1))

\* C1: when an instruction repeats the variant of an earlier compute-budget
\* instruction, j is the least index of such a repeat, and no instruction
\* before j is rejected on its own, both parsers return DuplicateInstruction(j):
\* the index of the later occurrence, never that of the earlier one.
C1_DuplicateIndex ==
    LET R == Repeats(instructions)
        j == FirstOf(R)
    IN  (R # {} /\ \A k \in 1..(j - 1) : ~RejectedAlone(instructions, k)) =>
            /\ limits_result # NotRun =>
                   limits_result = Err(DuplicateInstruction(j - 1))
            /\ cb_next >= j => cb_result = Err(DuplicateInstruction(j - 1))

\* [user_ix, SetComputeUnitLimit, SetComputeUnitLimit] was parsed by both parsers
C1_Witness ==
    /\ Len(instructions) = 3
    /\ instructions[1].program_id = UserProgram
    /\ instructions[2].data.variant = "SetComputeUnitLimit"
    /\ instructions[3].data.variant = "SetComputeUnitLimit"
    /\ limits_result = Err(DuplicateInstruction(2))
    /\ cb_result = Err(DuplicateInstruction(2))

\* C2: the first RequestHeapFrame(b) of a transaction is accepted if and only
\* if MIN_HEAP_FRAME_BYTES <= b <= MAX_HEAP_FRAME_BYTES and b mod 1024 = 0; for
\* every other b the parse fails with InstructionError(index,
\* InvalidInstructionData) at that instruction's index.
C2_HeapValidity ==
    LET H == {k \in DOMAIN instructions :
                 /\ instructions[k].program_id = ComputeBudgetProgram
                 /\ instructions[k].data.variant = "RequestHeapFrame"}
        k == FirstOf(H)
        b == instructions[k].data.value
    IN  H # {} =>
            /\ cb_next = k =>
                   /\ cb_result.ok <=> HeapOk(b)
                   /\ ~HeapOk(b) => cb_result = Err(InvalidInstructionData(k - 1))
                   /\ HeapOk(b) => cb_details.requested_heap_size = Some(<<k - 1, b>>)
            /\ (/\ limits_result # NotRun
                /\ \A i \in 1..(k - 1) : ~RejectedAlone(instructions, i)
                /\ \A i \in 1..(k - 1) : i \notin Repeats(instructions)) =>
                   IF HeapOk(b)
                   THEN limits_result # Err(InvalidInstructionData(k - 1))
                   ELSE limits_result = Err(InvalidInstructionData(k - 1))

\* a misaligned heap request in second place was rejected at index 1 by both
\* parsers
C2_Witness ==
    /\ Len(instructions) >= 2
    /\ instructions[2] = Ix(ComputeBudgetProgram, "RequestHeapFrame", U32(40 * 1024 + 1))
    /\ cb_next = 2
    /\ cb_result = Err(InvalidInstructionData(1))
    /\ limits_result = Err(InvalidInstructionData(1))

\* the compute unit limit the law gives for n instructions that are not
\* compute-budget instructions: min(MAX_COMPUTE_UNIT_LIMIT, n * 200000); the
\* product passes 1400000 from n = 7 on
DefaultLimitFor(n) ==
    IF U32Le(U32(7), n) THEN U32(1400000) ELSE U32(ToInt(n) * 200000)

\* C3: the sanitizer sets compute_unit_limit to min(MAX_COMPUTE_UNIT_LIMIT, x)
\* when a SetComputeUnitLimit(x) was recorded, whatever the other
\* instructions, and otherwise to min(MAX_COMPUTE_UNIT_LIMIT, (count_builtin +
\* count_non_builtin - count_compute_budget) * 200000), the sum, the difference
\* and the product saturating in u32.
C3_ComputeUnitLimit ==
    /\ (details_limits # NotRun /\ details_limits.ok) =>
          LET d == details_in[1]
              n == saturating_sub(
                       saturating_add(d.count_builtin_instructions,
                                      d.count_non_builtin_instructions),
                       d.count_compute_budget_instructions)
          IN  details_limits.value.compute_unit_limit =
                  IF d.requested_compute_unit_limit # None
                  THEN U32(1400000)
                  ELSE DefaultLimitFor(n)
    /\ (limits_result # NotRun /\ limits_result.ok) =>
          LET L == {k \in DOMAIN instructions :
                       /\ instructions[k].program_id = ComputeBudgetProgram
                       /\ instructions[k].data.variant = "SetComputeUnitLimit"}
              others == {k \in DOMAIN instructions :
                            instructions[k].program_id # ComputeBudgetProgram}
              x == instructions[FirstOf(L)].data.value
          IN  limits_result.value.compute_unit_limit =
                  IF L # {}
                  THEN (IF ToInt(x) > 1400000 THEN U32(1400000) ELSE x)
                  ELSE U32(Cardinality(others) * 200000)

\* the sum of the counts saturated at u32::MAX before the subtraction, and
\* the limit was worked out from the difference
C3_Witness ==
    /\ details_limits # NotRun
    /\ details_limits.ok
    /\ details_in[1].requested_compute_unit_limit = None
    /\ details_in[1].count_builtin_instructions = U32_MAX
    /\ details_in[1].count_non_builtin_instructions = U32(7)
    /\ details_in[1].count_compute_budget_instructions = U32_MAX
    /\ details_limits.value.compute_unit_limit = U32(0)

\* C10: every ComputeBudgetLimits that process_compute_budget_instructions
\* returns Ok has updated_heap_bytes a multiple of 1024 within
\* [MIN_HEAP_FRAME_BYTES, MAX_HEAP_FRAME_BYTES], compute_unit_limit at most
\* MAX_COMPUTE_UNIT_LIMIT and loaded_accounts_bytes within
\* [1, MAX_LOADED_ACCOUNTS_DATA_SIZE_BYTES].
C10_LimitsInRange ==
    (limits_result # NotRun /\ limits_result.ok) =>
        LET l == limits_result.value
        IN  /\ ToInt(l.updated_heap_bytes) % 1024 = 0
            /\ 32 * 1024 <= ToInt(l.updated_heap_bytes)
            /\ ToInt(l.updated_heap_bytes) <= 256 * 1024
            /\ ToInt(l.compute_unit_limit) <= 1400000
            /\ 1 <= ToInt(l.loaded_accounts_bytes)
            /\ ToInt(l.loaded_accounts_bytes) <= 64 * 1024 * 1024

\* a transaction asking for the largest heap, more compute units than allowed
\* and more loaded bytes than allowed was given limits
C10_Witness ==
    /\ limits_result # NotRun
    /\ limits_result.ok
    /\ \E i, j, k \in DOMAIN instructions :
          /\ instructions[i] = Ix(ComputeBudgetProgram, "RequestHeapFrame", U32(256 * 1024))
          /\ instructions[j] = Ix(ComputeBudgetProgram, "SetComputeUnitLimit", U32(1400001))
          /\ instructions[k] = Ix(ComputeBudgetProgram, "SetLoadedAccountsDataSizeLimit",
                                  U32(64 * 1024 * 1024 + 1))

\* the limits are within the maxima and the price is the one requested
Clamped(d, l) ==
    /\ U32Le(l.compute_unit_limit, MAX_COMPUTE_UNIT_LIMIT)
    /\ U32Le(l.updated_heap_bytes, MAX_HEAP_FRAME_BYTES)
    /\ U32Le(l.loaded_accounts_bytes, MAX_LOADED_ACCOUNTS_DATA_SIZE_BYTES)
    /\ l.compute_unit_price =
           IF d.requested_compute_unit_price = None THEN U64(0)
           ELSE d.requested_compute_unit_price[1][2]

\* C11: for every InstructionDetails D, records holding u32::MAX and u64::MAX
\* requests included, for which the sanitizer returns Ok, compute_unit_limit
\* is at most MAX_COMPUTE_UNIT_LIMIT, updated_heap_bytes at most
\* MAX_HEAP_FRAME_BYTES and loaded_accounts_bytes at most
\* MAX_LOADED_ACCOUNTS_DATA_SIZE_BYTES, and compute_unit_price is the
\* requested price, unclamped (0 when none was requested).
C11_SanitizerClamps ==
    /\ (rt_limits # NotRun /\ rt_limits.ok) => Clamped(details_in[1], rt_limits.value)
    /\ (details_limits # NotRun /\ details_limits.ok) =>
           Clamped(details_in[1], details_limits.value)

\* a record asking for u32::MAX compute units, a price of u64::MAX, the
\* largest heap and u32::MAX loaded bytes was given limits
C11_Witness ==
    /\ rt_limits # NotRun
    /\ rt_limits.ok
    /\ details_in[1].requested_compute_unit_limit = Some(<<1, U32_MAX>>)
    /\ details_in[1].requested_compute_unit_price = Some(<<2, U64_MAX>>)
    /\ details_in[1].requested_heap_size = Some(<<3, MAX_HEAP_FRAME_BYTES>>)
    /\ details_in[1].requested_loaded_accounts_data_size_limit = Some(<<4, U32_MAX>>)
    /\ rt_limits.value.compute_unit_price = U64_MAX

\* what the law gives for loaded_accounts_bytes on a request of v > 0, or on
\* no request
LoadedBytesFor(requested) ==
    IF requested = None THEN MAX_LOADED_ACCOUNTS_DATA_SIZE_BYTES
    ELSE IF U32Le(requested[1][2], MAX_LOADED_ACCOUNTS_DATA_SIZE_BYTES)
         THEN requested[1][2]
         ELSE MAX_LOADED_ACCOUNTS_DATA_SIZE_BYTES

\* the result r of a sanitizer on d follows the law on loaded_accounts_bytes
\* where it returns Ok
LoadedBytesSet(d, r) ==
    LET requested == d.requested_loaded_accounts_data_size_limit
    IN  (r.ok /\ (requested = None \/ requested[1][2] # U32(0))) =>
            r.value.loaded_accounts_bytes = LoadedBytesFor(requested)

ZeroRequested(d) ==
    /\ d.requested_loaded_accounts_data_size_limit # None
    /\ d.requested_loaded_accounts_data_size_limit[1][2] = U32(0)

\* C12 as stated: a requested value of 0 makes the sanitizer fail with
\* InvalidLoadedAccountsDataSizeLimit, whatever else the record holds.
C12_AsStated ==
    /\ rt_limits # NotRun =>
           /\ LoadedBytesSet(details_in[1], rt_limits)
           /\ ZeroRequested(details_in[1]) =>
                  rt_limits = Err(InvalidLoadedAccountsDataSizeLimit)
    /\ details_limits # NotRun =>
           /\ LoadedBytesSet(details_in[1], details_limits)
           /\ ZeroRequested(details_in[1]) =>
                  details_limits = Err(InvalidLoadedAccountsDataSizeLimit)

\* C12: the sanitizer sets loaded_accounts_bytes to
\* MAX_LOADED_ACCOUNTS_DATA_SIZE_BYTES when no limit was requested and to
\* min(v, MAX_LOADED_ACCOUNTS_DATA_SIZE_BYTES) when v > 0 was requested; when
\* 0 was requested it fails, with InvalidLoadedAccountsDataSizeLimit unless
\* the sanitizer checks the heap size and the requested heap size is not
\* allowed, in which case it fails with InstructionError(index,
\* InvalidInstructionData) for the heap request.
C12_LoadedAccountsBytes ==
    /\ rt_limits # NotRun =>
           /\ LoadedBytesSet(details_in[1], rt_limits)
           /\ ZeroRequested(details_in[1]) =>
                  LET heap == details_in[1].requested_heap_size
                  IN  rt_limits =
                          IF heap # None /\ ~sanitize_requested_heap_size(heap[1][2])
                          THEN Err(InvalidInstructionData(heap[1][1]))
                          ELSE Err(InvalidLoadedAccountsDataSizeLimit)
    /\ details_limits # NotRun =>
           /\ LoadedBytesSet(details_in[1], details_limits)
           /\ ZeroRequested(details_in[1]) =>
                  details_limits = Err(InvalidLoadedAccountsDataSizeLimit)

\* a record asking for 0 loaded bytes and a heap of 40K was refused for the
\* loaded bytes
C12_Witness ==
    /\ rt_limits = Err(InvalidLoadedAccountsDataSizeLimit)
    /\ ZeroRequested(details_in[1])
    /\ details_in[1].requested_heap_size = Some(<<3, U32(40 * 1024)>>)

(***************************************************************************)
(* Properties of the priority-flat buffer.                                 *)
(***************************************************************************)
\* the packets the batches of the buffer hold
HeldPackets ==
    UNION {{packets[b][i] : i \in DOMAIN packets[b]} : b \in SeqToSet(buffer)}

\* C4: after insert_batch returns, every packet still held by the buffer has
\* a priority at least that of every packet evicted during the call, the
\* packets of the inserted batch included on either side.
C4_EvictionOrder ==
    last_insert # None =>
        \A held \in HeldPackets : \A gone \in evicted : held.priority >= gone.priority

\* an insert_batch call evicted a packet of the batch it was given and a
\* packet of an older batch, and both batches are still in the buffer
C4_Witness ==
    /\ last_insert # None
    /\ \E new \in evicted, old \in evicted :
          /\ new.owner = last_insert[1].batch
          /\ old.owner # last_insert[1].batch
          /\ new.owner \in SeqToSet(buffer)
          /\ old.owner \in SeqToSet(buffer)

\* C13: insert_batch of an empty batch changes neither the buffer nor the
\* index; insert_batch of a non-empty batch into a buffer holding len <=
\* capacity batches leaves exactly min(len + 1, capacity) batches, so the
\* length does not exceed the capacity and no more batches are removed than
\* the excess.
C13_InsertBatchLength ==
    (last_insert # None /\ made_batch = None) =>
        LET li == last_insert[1]
        IN  IF li.was_empty
            THEN buffer = li.buffer_before /\ index = li.index_before
            ELSE li.len_before <= li.batch_limit =>
                     Len(buffer) = IF li.len_before + 1 <= li.batch_limit
                                   THEN li.len_before + 1
                                   ELSE li.batch_limit

\* a non-empty batch was inserted into a buffer that was full: packets were
\* evicted, one batch went and the one inserted is among those kept
C13_Witness ==
    /\ last_insert # None
    /\ made_batch = None
    /\ ~last_insert[1].was_empty
    /\ last_insert[1].len_before = last_insert[1].batch_limit
    /\ last_insert[1].len_before = 2
    /\ evicted # {}
    /\ Len(buffer) = 2
    /\ last_insert[1].batch \in SeqToSet(buffer)

\* C14: after any sequence of make_batch followed by insert_batch, the index
\* contains exactly the packets held by the batches of the buffer (as many,
\* each indexed packet's owner is in the buffer and holds that packet under
\* its slot index), and no batch of the buffer is empty.
C14_IndexMatchesBuffer ==
    made_batch = None =>
        /\ index = HeldPackets
        /\ Cardinality(index) = Cardinality(HeldPackets)
        /\ \A pkt \in index :
              /\ pkt.owner \in SeqToSet(buffer)
              /\ pkt.index \in DOMAIN packets[pkt.owner]
              /\ packets[pkt.owner][pkt.index] = pkt
        /\ \A b \in SeqToSet(buffer) : DOMAIN packets[b] # {}

\* an insert_batch call evicted packets, a batch of the buffer lost one of
\* its packets and kept another, which is still indexed
C14_Witness ==
    /\ made_batch = None
    /\ \E gone \in evicted : \E pkt \in index : pkt.owner = gone.owner

(***************************************************************************)
(* Properties of the cost tracker.                                         *)
(***************************************************************************)
\* a + b > c for u32 a, b, c, the sum taken as an integer
SumExceeds(a, b, c) ==
    LET lo == (a[2] + b[2]) % Half
        hi == a[1] + b[1] + ((a[2] + b[2]) \div Half)
    IN  hi > c[1] \/ (hi = c[1] /\ lo > c[2])

\* the three conditions of would_exceed_limit, the sums taken as integers
ExceedsLimit(t, keys, cost) ==
    \/ SumExceeds(t.package_cost, cost, t.package_max_cost)
    \/ U32Lt(t.chain_max_cost, cost)
    \/ \E i \in DOMAIN keys :
          /\ keys[i] \in DOMAIN t.chained_costs
          /\ SumExceeds(t.chained_costs[keys[i]], cost, t.chain_max_cost)

\* C8 (as stated): would_exceed_limit returns true exactly when package_cost +
\* tx_cost > package_max_cost, or tx_cost > chain_max_cost, or some key of the
\* list has per_account_cost + tx_cost > chain_max_cost, the sums taken as
\* integers, and false otherwise.
C8_AsStated ==
    tracker_query # None =>
        LET q == tracker_query[1]
        IN  q.answer = Returned(ExceedsLimit(q.before, q.keys, q.cost))

\* a, with cost added n times in u32 arithmetic
RECURSIVE AddTimes(_, _, _)
AddTimes(a, cost, n) == IF n = 0 THEN a ELSE AddTimes(wrapping_add(a, cost), cost, n - 1)

\* C16: add_transaction(keys, cost) adds cost to package_cost exactly once
\* and adds cost to the entry of each key of keys (creating the entry when
\* absent), leaves every other account's cost and both limits unchanged, and
\* performs no limit check of its own.  The sums are the u32 sums of the
\* call; a call that panicked on one of them did not return.
C16_AddTransaction ==
    (tracker_call # None /\ tracker_call[1].op = "add_transaction"
        /\ ~tracker_call[1].after.panicked) =>
        LET q == tracker_call[1]
            old(k) == IF k \in DOMAIN q.before.chained_costs
                      THEN q.before.chained_costs[k] ELSE U32(0)
        IN  /\ q.after.package_cost = wrapping_add(q.before.package_cost, q.cost)
            /\ DOMAIN q.after.chained_costs =
                   DOMAIN q.before.chained_costs \cup SeqToSet(q.keys)
            /\ \A k \in DOMAIN q.after.chained_costs :
                   q.after.chained_costs[k] =
                       AddTimes(old(k), q.cost,
                                Cardinality({i \in DOMAIN q.keys : q.keys[i] = k}))
            /\ q.after.chain_max_cost = q.before.chain_max_cost
            /\ q.after.package_max_cost = q.before.package_max_cost

\* a transaction that would_exceed_limit refuses was added all the same: the
\* block total is over the block limit, one account was created and another
\* kept its cost
C16_Witness ==
    /\ tracker_call # None
    /\ tracker_call[1].op = "add_transaction"
    /\ ~tracker_call[1].after.panicked
    /\ tracker_call[1].keys = <<"a">>
    /\ DOMAIN tracker_call[1].before.chained_costs = {"b"}
    /\ would_exceed_limit(tracker_call[1].before, tracker_call[1].keys,
                          tracker_call[1].cost) = Returned(TRUE)
    /\ U32Lt(tracker_call[1].after.package_max_cost, tracker_call[1].after.package_cost)

\* C17: after reset() the per-account map is empty and package_cost is 0
\* while chain_max_cost and package_max_cost are unchanged, so
\* would_exceed_limit answers as for a freshly constructed tracker, and a
\* transaction refused before the reset only because of accumulated cost is
\* accepted after it.
C17_Reset ==
    (tracker_call # None /\ tracker_call[1].op = "reset") =>
        LET q == tracker_call[1]
            fresh == CostTrackerNew(q.before.chain_max_cost, q.before.package_max_cost,
                                    q.before.overflow_checks)
        IN  /\ q.after.chained_costs = <<>>
            /\ q.after.package_cost = U32(0)
            /\ q.after.chain_max_cost = q.before.chain_max_cost
            /\ q.after.package_max_cost = q.before.package_max_cost
            /\ \A keys \in TrackerKeyLists, cost \in TrackerCosts :
                   /\ would_exceed_limit(q.after, keys, cost) =
                          would_exceed_limit(fresh, keys, cost)
                   /\ (/\ would_exceed_limit(q.before, keys, cost) = Returned(TRUE)
                       /\ U32Le(cost, q.before.chain_max_cost)
                       /\ U32Le(cost, q.before.package_max_cost)) =>
                          would_exceed_limit(q.after, keys, cost) = Returned(FALSE)

\* a tracker that refused a transaction of cost 5 on the account it had
\* charged 5 to was reset and accepts it
C17_Witness ==
    /\ tracker_call # None
    /\ tracker_call[1].op = "reset"
    /\ tracker = tracker_call[1].after
    /\ tracker_call[1].before.chained_costs = [k \in {"a"} |-> U32(5)]
    /\ tracker_call[1].before.chain_max_cost = U32(5)
    /\ would_exceed_limit(tracker_call[1].before, <<"a">>, U32(5)) = Returned(TRUE)
    /\ would_exceed_limit(tracker, <<"a">>, U32(5)) = Returned(FALSE)

(***************************************************************************)
(* Properties of the cost model.                                           *)
(***************************************************************************)
\* number of times k occurs in the list keys
Occurrences(keys, k) == Cardinality({i \in DOMAIN keys : keys[i] = k})

\* the cost the tracker t holds for account k, 0 when it holds none
ChainedCost(t, k) ==
    IF k \in DOMAIN t.chained_costs THEN ToInt(t.chained_costs[k]) ELSE 0

\* tracker b is tracker a with the transaction of the given keys and cost
\* recorded
Recorded(a, b, keys, cost) ==
    /\ ToInt(b.package_cost) = ToInt(a.package_cost) + ToInt(cost)
    /\ DOMAIN b.chained_costs = DOMAIN a.chained_costs \cup SeqToSet(keys)
    /\ \A k \in DOMAIN b.chained_costs :
          ChainedCost(b, k) = ChainedCost(a, k) + Occurrences(keys, k) * ToInt(cost)

\* C15: try_to_add_transaction records the transaction and returns
\* Some(total block cost after adding) when would_exceed_limit is false for
\* its writable keys and cost; otherwise it returns None and leaves the
\* package cost and every per-account cost unchanged.
C15_TryToAdd ==
    cost_model_try # None =>
        LET q == cost_model_try[1]
            keys == find_writable_keys(q.transaction)
            cost == find_transaction_cost(q.before.overflow_checks, q.transaction)
        IN  /\ ~cost.panic
            /\ IF would_exceed_limit(q.before, keys, cost.value) = Returned(FALSE)
               THEN /\ Recorded(q.before, q.after, keys, cost.value)
                    /\ q.result = Returned(Some(q.after.package_cost))
               ELSE /\ q.result = Returned(None)
                    /\ q.after.package_cost = q.before.package_cost
                    /\ q.after.chained_costs = q.before.chained_costs

\* a second transaction of cost 500 did not fit a block of 500 that held
\* one already
C15_Witness ==
    /\ cost_model_try # None
    /\ cost_model_try[1].result = Returned(None)
    /\ cost_model_try[1].before.package_cost = U32(500)
    /\ cost_model_try[1].before.package_max_cost = U32(500)
    /\ cost_model_try[1].transaction.instructions = <<"other">>
    /\ cost_model_try[1].transaction.account_keys = <<AccountKey("a", FALSE)>>

(***************************************************************************)
(* Properties of the prioritization-fee cache.                             *)
(***************************************************************************)
MinOf(S) == CHOOSE x \in S : \A y \in S : x <= y

\* the fees of the updates the finalizing thread applied to the slot before
\* it froze it, and those among them that write the account
SlotFees(s) == {u.transaction_fee : u \in fee_log[s].updates}

AccountFees(s, a) ==
    {u.transaction_fee :
        u \in {v \in fee_log[s].updates :
                  \E i \in DOMAIN v.writable_accounts : v.writable_accounts[i] = a}}

\* C9: both queries return values only from finalized slots: a slot that has
\* received transaction updates and is not finalized contributes nothing to
\* either query; once finalized it contributes its minimum fee to
\* get_prioritization_fees, and to get_account_prioritization_fees the
\* account's minimum fee where the account was not pruned.
C9_OnlyFinalized ==
    \A s \in Slots :
        LET fees == get_prioritization_fees(cache)
            account_fees(a) == get_account_prioritization_fees(cache, a)
        IN  /\ ~fee_log[s].frozen =>
                  /\ s \notin DOMAIN fees
                  /\ \A a \in FeeAccounts : s \notin DOMAIN account_fees(a)
            /\ (fee_log[s].frozen /\ SlotFees(s) # {}) =>
                  /\ s \in DOMAIN fees
                  /\ fees[s] = MinOf(SlotFees(s))
            /\ fee_log[s].frozen =>
                  \A a \in FeeAccounts :
                      /\ s \in DOMAIN account_fees(a) <=>
                             /\ AccountFees(s, a) # {}
                             /\ MinOf(AccountFees(s, a)) # MinOf(SlotFees(s))
                      /\ s \in DOMAIN account_fees(a) =>
                             account_fees(a)[s] = MinOf(AccountFees(s, a))

\* one slot has had updates applied and is not finalized, while another was
\* finalized after its updates and answers both queries
C9_Witness ==
    \E s1 \in Slots, s2 \in Slots :
        /\ s1 \in DOMAIN cache
        /\ SlotFees(s1) # {}
        /\ ~fee_log[s1].frozen
        /\ fee_log[s2].frozen
        /\ s2 \in DOMAIN get_prioritization_fees(cache)
        /\ s2 \in DOMAIN get_account_prioritization_fees(cache, "a")

\* the accounts the updates applied to the slot write-lock
WrittenAccounts(s) == {a \in FeeAccounts : AccountFees(s, a) # {}}

\* C18: for each slot, the recorded block minimum fee is the minimum priority
\* fee over all transactions applied to that slot, and the fee recorded for a
\* writable account is the minimum over the transactions of that slot that
\* write-lock it; an account written by no transaction of the slot has no
\* recorded fee (and until the slot is finalized every written account has
\* one).
C18_RecordedMinimum ==
    \A s \in Slots \cap DOMAIN cache :
        LET f == cache[s].entry
        IN  /\ get_min_transaction_fee(f) =
                   IF SlotFees(s) = {} THEN None ELSE Some(MinOf(SlotFees(s)))
            /\ \A a \in FeeAccounts :
                   /\ get_writable_account_fee(f, a) # None =>
                          /\ a \in WrittenAccounts(s)
                          /\ get_writable_account_fee(f, a) = Some(MinOf(AccountFees(s, a)))
                   /\ (~fee_log[s].frozen /\ a \in WrittenAccounts(s)) =>
                          get_writable_account_fee(f, a) # None

\* a slot took a transaction of fee 5 writing a and b and then one of fee 0
\* writing c: the block minimum is 0, a keeps 5 and the account nobody wrote
\* in another slot has no fee
C18_Witness ==
    \E s \in Slots \cap DOMAIN cache :
        /\ ~fee_log[s].frozen
        /\ SlotFees(s) = {0, 5}
        /\ get_min_transaction_fee(cache[s].entry) = Some(0)
        /\ get_writable_account_fee(cache[s].entry, "a") = Some(5)
        /\ get_writable_account_fee(cache[s].entry, "c") = Some(0)

\* C19: when a slot is finalized, every writable-account entry whose fee
\* equals the slot's block minimum fee is removed, every account entry with a
\* higher fee is kept with its value, and the block minimum fee itself is
\* unchanged.
C19_FinalizePrunes ==
    \A s \in Slots \cap DOMAIN cache :
        fee_log[s].frozen =>
            LET before == fee_log[s].before_frozen[1]
                after == cache[s].entry
                kept == {a \in DOMAIN before.min_writable_account_fees :
                            before.min_writable_account_fees[a] # before.min_transaction_fee[1]}
            IN  /\ is_finalized(after)
                /\ after.min_transaction_fee = before.min_transaction_fee
                /\ DOMAIN after.min_writable_account_fees = kept
                /\ \A a \in kept :
                       /\ after.min_writable_account_fees[a] =
                              before.min_writable_account_fees[a]
                       /\ after.min_writable_account_fees[a] > before.min_transaction_fee[1]

\* a slot holding fee 0 for the block and for c, and 5 for a and b, was
\* finalized: c went, a and b stayed
C19_Witness ==
    \E s \in Slots \cap DOMAIN cache :
        /\ fee_log[s].frozen
        /\ fee_log[s].before_frozen[1].min_transaction_fee = Some(0)
        /\ DOMAIN fee_log[s].before_frozen[1].min_writable_account_fees = {"a", "b", "c"}
        /\ cache[s].entry.min_writable_account_fees = [k \in {"a", "b"} |-> 5]

\* C20 (as stated): the cache is bounded: after any sequence of update and
\* finalize_priority_fee calls over any number of distinct slots, once the
\* eviction run by finalize_priority_fee has completed the cache holds at most
\* MAX_NUM_RECENT_BLOCKS slot entries.
C20_AsStated == bank.cache_len <= MAX_NUM_RECENT_BLOCKS

\* the last n slots of a creation order
MostRecent(created, n) ==
    {created[i] : i \in {j \in 1..Len(created) : j > Len(created) - n}}

\* C21 (as stated): evict_old_blocks(n) removes the entries of the slots
\* that were created earliest and keeps the n most recently created ones;
\* looking an existing slot up again does not refresh its age (slots 1, 3, 7
\* created in that order, then 3 and 1 looked up again: evict_old_blocks(2)
\* removes slot 1 and keeps 3 and 7).
C21_AsStated ==
    evict_log.last # None =>
        LET e == evict_log.last[1]
        IN  e.after = MostRecent(e.created, e.max_age)

Migrating == {"stake", "config", "address_lookup_table"}

\* C25: get_builtin_instruction_cost(program_id, feature_set) returns None
\* for a program id that is not in the registry, Some(0) for a registered
\* program whose migration feature is active in feature_set, and
\* Some(native_cost) for a registered program that has no migration feature or
\* whose feature is inactive.
C25_BuiltinInstructionCost ==
    builtin_cost.result # NotRun =>
        LET p == builtin_cost.program_id
            active == builtin_cost.feature_set
            r == builtin_cost.result.value
        IN  /\ p \notin DOMAIN BuiltinCosts => r = None
            /\ p \in DOMAIN BuiltinCosts =>
                  IF p \in Migrating /\ BuiltinCosts[p].sbpf_migration_feature[1] \in active
                  THEN r = Some(0)
                  ELSE r = Some(BuiltinCosts[p].native_cost)

\* the stake program was looked up while its migration feature was active,
\* with the feature of another program inactive
C25_Witness ==
    /\ builtin_cost.program_id = "stake"
    /\ "migrate_stake_program_to_core_bpf" \in builtin_cost.feature_set
    /\ "migrate_config_program_to_core_bpf" \notin builtin_cost.feature_set
    /\ builtin_cost.result = Returned(Some(0))

(***************************************************************************)
(* Properties of the shared cost model.                                    *)
(***************************************************************************)
\* the cost of the transaction of thread i
ThreadCost(i) ==
    ToInt(find_transaction_cost(cost_model.cost_tracker.overflow_checks,
                                threads.transactions[i]).value)

RECURSIVE SumThreadCosts(_)
SumThreadCosts(S) ==
    IF S = {} THEN 0
    ELSE LET i == CHOOSE x \in S : TRUE
         IN  ThreadCost(i) + SumThreadCosts(S \ {i})

\* the threads that write account k
Writers(k) ==
    {i \in DOMAIN threads.transactions :
        k \in SeqToSet(find_writable_keys(threads.transactions[i]))}

\* the transactions together fit within the block limit and, for each
\* account, within the per-account limit
TogetherFit ==
    /\ SumThreadCosts(DOMAIN threads.transactions)
           <= ToInt(cost_model.cost_tracker.package_max_cost)
    /\ \A k \in {"a", "b"} :
          SumThreadCosts(Writers(k)) <= ToInt(cost_model.cost_tracker.chain_max_cost)

\* every call made so far succeeded, and once all are made the total cost is
\* the sum of the transactions' costs
AllSucceed ==
    /\ \A i \in DOMAIN threads.results :
          threads.results[i] # NotRun =>
              /\ ~threads.results[i].panic
              /\ threads.results[i].value # None
    /\ (\A i \in DOMAIN threads.results : threads.results[i] # NotRun) =>
          ToInt(cost_model.cost_tracker.package_cost)
              = SumThreadCosts(DOMAIN threads.transactions)

WithinLimits(t) ==
    /\ U32Le(t.package_cost, t.package_max_cost)
    /\ \A k \in DOMAIN t.chained_costs : U32Le(t.chained_costs[k], t.chain_max_cost)

\* C27 (as stated): if transactions are recorded only through
\* CostModel::try_to_add_transaction, then in every reachable state
\* package_cost <= package_max_cost and every account's accumulated cost is
\* <= chain_max_cost, for any transactions and any writable-key lists.
C27_AsStated == WithinLimits(cost_model.cost_tracker)

\* a call whose transaction names no writable account twice leaves a tracker
\* that was within its limits within its limits
DistinctKeysKeepLimits ==
    cost_model_try # None =>
        LET q == cost_model_try[1]
        IN  (/\ WithinLimits(q.before)
             /\ \A k \in {"a", "b"} : Occurrences(find_writable_keys(q.transaction), k) <= 1)
                => WithinLimits(q.after)

\* C28: every update for slot s submitted through update() before
\* finalize_priority_fee(s) is called by the same thread is applied to s's
\* entry before s is marked finalized; once a reader observes s finalized, the
\* fees reflect all those updates.
C28_UpdatesBeforeFinalized ==
    \A s \in Slots :
        /\ fee_log[s].frozen => fee_log[s].submitted \subseteq fee_log[s].updates
        /\ (s \in DOMAIN cache /\ is_finalized(cache[s].entry)) =>
              /\ fee_log[s].frozen
              /\ \A u \in fee_log[s].submitted :
                    /\ get_min_transaction_fee(cache[s].entry) # None
                    /\ get_min_transaction_fee(cache[s].entry)[1] <= u.transaction_fee
                    /\ \A i \in DOMAIN u.writable_accounts :
                          LET fee == get_writable_account_fee(cache[s].entry,
                                                              u.writable_accounts[i])
                          IN  fee # None => fee[1] <= u.transaction_fee

\* two updates of different fees were submitted for a slot before its
\* finalize_priority_fee, a third after it, and the slot is finalized
C28_Witness ==
    \E s \in Slots :
        /\ s \in DOMAIN cache
        /\ is_finalized(cache[s].entry)
        /\ Cardinality({u.transaction_fee : u \in fee_log[s].submitted}) = 2
        /\ fee_log[s].last_update # None
        /\ fee_log[s].last_update[1] # <<>>
        /\ \A i \in DOMAIN fee_log[s].last_update[1] :
              fee_log[s].last_update[1][i].transaction_fee
                  \notin {u.transaction_fee : u \in fee_log[s].submitted}
        /\ channel = <<>>

\* the entry of slot s holds the block minimum fee and the per-account
\* minimum fees of the TransactionUpdate messages sent
Holds(s, sent) ==
    \A i \in DOMAIN sent :
        /\ s \in DOMAIN cache
        /\ get_min_transaction_fee(cache[s].entry) # None
        /\ get_min_transaction_fee(cache[s].entry)[1] <= sent[i].transaction_fee
        /\ \A j \in DOMAIN sent[i].writable_accounts :
              LET fee == get_writable_account_fee(cache[s].entry,
                                                  sent[i].writable_accounts[j])
              IN  fee # None /\ fee[1] <= sent[i].transaction_fee

EmittedBatches ==
    in_flight \cup (IF last_pass = None THEN {} ELSE SeqToSet(last_pass[1].result.sent))

\* C5: within any single ConsumeWork batch no two transactions write the same
\* account, and no account read by one is written by another.
C5_ConflictFreeBatch ==
    \A b \in EmittedBatches :
        \A i \in DOMAIN b.transactions, j \in DOMAIN b.transactions :
            i # j => ~conflict(sched_config.transactions[b.transactions[i]],
                               sched_config.transactions[b.transactions[j]])

\* a pass sent a batch of two transactions and left in the container a
\* transaction of its window that conflicts with one of them
C5_Witness ==
    /\ last_pass # None
    /\ \E b \in SeqToSet(last_pass[1].result.sent) :
          /\ Len(b.transactions) >= 2
          /\ \E t \in SeqToSet(last_pass[1].result.window) \cap container :
                \E i \in DOMAIN b.transactions :
                    conflict(sched_config.transactions[t],
                             sched_config.transactions[b.transactions[i]])

\* C6: when pre_graph_filter and pre_lock_filter accept everything (the
\* workers report nothing retryable), the sum of num_scheduled over the passes
\* so far plus the number of transactions in the container equals the number
\* in the container at the start.
C6_Conservation ==
    (/\ sched_config.filters.pre_graph_rejects = {}
     /\ sched_config.filters.pre_lock_rejects = {}) =>
        sched_stats.num_scheduled + Cardinality(container)
            = Len(sched_config.transactions)

\* after two passes under accepting filters some transactions are scheduled
\* and some are still in the container
C6_Witness ==
    /\ sched_config.filters.pre_graph_rejects = {}
    /\ sched_config.filters.pre_lock_rejects = {}
    /\ sched_stats.num_of_scheduling >= 2
    /\ sched_stats.num_scheduled >= 2
    /\ container # {}

\* the window w holds t, t conflicts with no other transaction of w, and the
\* others, at least two, conflict with one another
TracerWindow(txs, w, t) ==
    LET others == SeqToSet(w) \ {t}
    IN  /\ t \in SeqToSet(w)
        /\ Cardinality(others) >= 2
        /\ \A o \in others : ~conflict(txs[t], txs[o])
        /\ \A a \in others, b \in others : a # b => conflict(txs[a], txs[b])

\* the transactions of the pass dispatched from a place before t in the window
DispatchedBefore(pass, t) ==
    {pass.window[i] : i \in {k \in DOMAIN pass.window :
        /\ pass.window[k] \in pass.dispatched
        /\ \E m \in DOMAIN pass.window : m > k /\ pass.window[m] = t}}

FirstPass == last_pass # None /\ sched_stats.num_of_scheduling = 1

FullyContended(txs, w) ==
    /\ w # <<>>
    /\ \E k \in UNION {txs[t].writes : t \in SeqToSet(w)} :
          \A t \in SeqToSet(w) : k \in txs[t].writes

\* the batches that were still in flight when the last pass began its
\* dispatch loop
StillInFlight(pass) == pass.in_flight \ SeqToSet(pass.sent)

\* the run has emptied a container whose transactions all write one account
DrainedContended ==
    /\ FullyContended(sched_config.transactions,
                      [i \in DOMAIN sched_config.transactions |-> i])
    /\ container = {}

C24_InsertNewTransaction ==
    LET c == state_container.container
        n == Len(state_container.returned)
    IN  /\ state_container.before # None =>
              LET b == state_container.before[1]
                  id == b.next_id
                  dropped == (b.priority_queue \cup {id}) \ c.priority_queue
                  priority(t) == IF t = id THEN state_container.last_priority
                                 ELSE b.id_to_transaction_state[t].priority
              IN  /\ state_container.returned[n] <=> dropped # {}
                  /\ Cardinality(dropped) <= 1
                  /\ \A d \in dropped : \A t \in b.priority_queue \cup {id} :
                        priority(d) <= priority(t)
                  /\ DOMAIN c.id_to_transaction_state = c.priority_queue
        /\ n <= c.capacity =>
              /\ \A i \in 1..n : ~state_container.returned[i]
              /\ DOMAIN c.id_to_transaction_state = 0..(n - 1)
              /\ c.priority_queue = 0..(n - 1)

\* a container was filled to its capacity of three without a displacement,
\* and a fourth insertion of higher priority then displaced an entry
C24_Witness ==
    /\ state_container.container.capacity = 3
    /\ state_container.returned = <<FALSE, FALSE, FALSE, TRUE>>
    /\ 3 \in state_container.container.priority_queue


\* two batches hold transactions that conflict on an account
BatchesConflict(b1, b2) ==
    \E i \in DOMAIN b1.transactions, j \in DOMAIN b2.transactions :
        conflict(sched_config.transactions[b1.transactions[i]],
                 sched_config.transactions[b2.transactions[j]])

\* C30: at every moment, no two transactions that have been dispatched and
\* not yet completed, in batches sent to different workers, conflict on an
\* account (write-write or read-write); the locks of a batch are released only
\* when that batch's own FinishedConsumeWork is drained, whatever the order in
\* which completions from different workers arrive.
C30_LocksHeldUntilDrained ==
    /\ \A b1 \in in_flight, b2 \in in_flight :
          b1.worker # b2.worker => ~BatchesConflict(b1, b2)
    /\ \A w \in Workers : SeqToSet(work_channels[w]) \subseteq in_flight
    /\ \A i \in DOMAIN finished_channel : finished_channel[i].work \in in_flight
    /\ last_pass # None =>
          \A b \in last_pass[1].in_flight_before :
              b \in last_pass[1].result.in_flight <=> b.batch_id \notin last_pass[1].drained

\* the completion of a later batch, from another worker, was drained while an
\* earlier batch is still in flight, and a transaction that conflicts with the
\* earlier batch is still in the container
C30_Witness ==
    /\ last_pass # None
    /\ \E b \in last_pass[1].in_flight_before \cap in_flight :
          /\ \E d \in last_pass[1].in_flight_before :
                /\ d.batch_id \in last_pass[1].drained
                /\ d.batch_id > b.batch_id
                /\ d.worker # b.worker
          /\ \E t \in container : \E i \in DOMAIN b.transactions :
                conflict(sched_config.transactions[t],
                         sched_config.transactions[b.transactions[i]])


\* the positions of the graph g that wait, directly or not, for position i:
\* acc holds i and those found before position j
RECURSIVE SuccessorsFrom(_, _, _, _)
SuccessorsFrom(txs, g, j, acc) ==
    IF j > Len(g) THEN acc
    ELSE SuccessorsFrom(txs, g, j + 1,
                        IF predecessors(txs, g, j) \cap acc # {} THEN acc \cup {j} ELSE acc)

Successors(txs, g, i) == {g[j] : j \in SuccessorsFrom(txs, g, i + 1, {i}) \ {i}}

\* C31: a transaction for which pre_graph_filter yields false is dropped
\* (afterwards it is neither in the container nor in any batch); a transaction
\* for which pre_lock_filter yields false is never dropped: when the pass
\* returns it is back in the container, it was not dispatched in that pass,
\* and none of its successors in the conflict graph was dispatched in that
\* pass.
C31_Filters ==
    last_pass # None =>
        LET txs == sched_config.transactions
            cfg == sched_config.filters
            pass == last_pass[1].result
        IN  /\ \A t \in SeqToSet(pass.window) \cap cfg.pre_graph_rejects :
                  /\ t \notin container
                  /\ \A b \in EmittedBatches : t \notin SeqToSet(b.transactions)
            /\ \A i \in DOMAIN pass.graph :
                  pass.graph[i] \in cfg.pre_lock_rejects =>
                      /\ pass.graph[i] \in pass.container
                      /\ pass.graph[i] \notin pass.dispatched
                      /\ Successors(txs, pass.graph, i) \cap pass.dispatched = {}
                      /\ Successors(txs, pass.graph, i) \subseteq pass.container

\* a pass dropped a transaction that pre_graph_filter rejected and returned
\* to the container one that pre_lock_filter deferred, together with a
\* successor of it
C31_Witness ==
    /\ last_pass # None
    /\ \E t \in SeqToSet(last_pass[1].result.window) \cap sched_config.filters.pre_graph_rejects :
          t \notin container
    /\ \E i \in DOMAIN last_pass[1].result.graph :
          /\ last_pass[1].result.graph[i] \in last_pass[1].result.returned
          /\ Successors(sched_config.transactions, last_pass[1].result.graph, i) # {}
          /\ Successors(sched_config.transactions, last_pass[1].result.graph, i)
                 \subseteq container

(***************************************************************************)
(* Termination of the loop of BenchEnv::run.  The caller's thread and the  *)
(* workers' threads each keep running, so a pass and a worker's iteration  *)
(* that stay possible are eventually taken.  The pass count saturates at   *)
(* MaxPasses: a pass that finds nothing to drain and nothing to dispatch   *)
(* changes nothing else.                                                   *)
(***************************************************************************)
\* one iteration of the loop of BenchEnv::run, the loop running for as long
\* as the container is not empty
RunLoop ==
    /\ container # {}
    /\ LET drained == {finished_channel[i].work.batch_id : i \in DOMAIN finished_channel}
           result == schedule(sched_config.filters, sched_config.transactions, container,
                              scheduler, in_flight, drained)
       IN  /\ container' = result.container
           /\ scheduler' = result.scheduler
           /\ in_flight' = result.in_flight
           /\ work_channels' =
                 [w \in Workers |->
                     work_channels[w] \o SelectSeq(result.sent, LAMBDA b : b.worker = w)]
           /\ sched_stats' = [sched_stats EXCEPT
                                !.num_of_scheduling = IF @ < MaxPasses THEN @ + 1 ELSE @,
                                !.num_scheduled = @ + result.num_scheduled]
           /\ last_pass' = Some([container_before |-> container,
                                 in_flight_before |-> in_flight,
                                 scheduler_before |-> scheduler,
                                 drained |-> drained,
                                 result |-> result])
    /\ finished_channel' = <<>>
    /\ UNCHANGED <<sched_config, state_container>>
    /\ UNCHANGED <<budget_vars, buffer_vars, tracker_vars, fee_vars, cost_model_vars>>

SchedLoopNext ==
    \/ RunLoop
    \/ ServiceLoop

\* a pass is possible and changes the state: the container is not empty and
\* the pass drains a completion, dispatches a batch, or is counted
RunLoopEnabled ==
    /\ container # {}
    /\ LET drained == {finished_channel[i].work.batch_id : i \in DOMAIN finished_channel}
           result == schedule(sched_config.filters, sched_config.transactions, container,
                              scheduler, in_flight, drained)
       IN  \/ finished_channel # <<>>
           \/ result.sent # <<>>
           \/ result.container # container
           \/ sched_stats.num_of_scheduling < MaxPasses

\* weak fairness of RunLoop, its enabling condition written as the state
\* predicate RunLoopEnabled
FairRunLoop ==
    \/ []<>(~RunLoopEnabled)
    \/ []<><<RunLoop>>_vars

SpecSchedLoop ==
    InitSched /\ [][SchedLoopNext]_vars /\ FairRunLoop /\ WF_vars(ServiceLoop)

\* both filters accept every transaction
AcceptsAll(cfg) == cfg.pre_graph_rejects = {} /\ cfg.pre_lock_rejects = {}

\* the block-cost limit admits the whole workload
WithinBlockLimit(cfg, txs) == SumCost(txs, DOMAIN txs) <= cfg.block_limit

Failing(ixs) ==
    Repeats(ixs) \cup {k \in DOMAIN ixs : RejectedAlone(ixs, k)}

\* C33: the parser scans in index order and stops at the first failing
\* instruction: its error carries the index of the lowest-index
\* compute-budget instruction that is undecodable, of an unknown variant, an
\* invalid heap request or a duplicate, the result is the one of the
\* instructions up to it, and without such an instruction the scan succeeds
C33_StopsAtFirstFailing ==
    LET F == Failing(instructions)
        r == get_instruction_details(instructions)
    IN  /\ (limits_result # NotRun /\ details_in = None) =>
               IF F = {} THEN r.ok
               ELSE LET k == FirstOf(F)
                    IN  /\ ~r.ok
                        /\ r.err.index = k - 1
                        /\ r.err = IF k \in Repeats(instructions)
                                   THEN DuplicateInstruction(k - 1)
                                   ELSE InvalidInstructionData(k - 1)
                        /\ r = get_instruction_details(SubSeq(instructions, 1, k))
                        /\ limits_result = r
        /\ IF F # {} /\ cb_next >= FirstOf(F)
           THEN cb_next = FirstOf(F) /\ cb_result = r
           ELSE cb_result.ok

\* a transaction whose first instruction fails and whose later instructions
\* fail too was parsed: the error is the one of the first
C33_Witness ==
    /\ Len(instructions) = MaxIxs
    /\ Cardinality(Failing(instructions)) >= 2
    /\ 1 \notin Failing(instructions)
    /\ 2 \in Failing(instructions)
    /\ limits_result = Err(InvalidInstructionData(1))
    /\ cb_result = Err(InvalidInstructionData(1))

(***************************************************************************)
(* What a call of process_instruction leaves of the record.                *)
(***************************************************************************)
\* C34: ComputeBudgetInstructionDetails::process_instruction modifies the
\* record only when it returns Ok for an instruction of the compute-budget
\* program: a call that returns an error and a call for any other program id
\* (which returns Ok) leave every field of the record, the count of
\* compute-budget instructions included, as it was
C34_RecordFrame ==
    [][cb_next' = cb_next + 1 =>
          LET ix == instructions[cb_next + 1]
          IN  /\ ~cb_result'.ok => cb_details' = cb_details
              /\ ~compute_budget_check_id(ix.program_id) =>
                     cb_result'.ok /\ cb_details' = cb_details
              /\ cb_details' # cb_details =>
                     /\ cb_result'.ok
                     /\ compute_budget_check_id(ix.program_id)
                     /\ cb_details' = process_instruction(cb_details, cb_next % 256,
                                                          ix.program_id, ix).value]_vars

\* after a SetComputeUnitLimit was recorded, a second one was refused: the
\* record holds the first alone, counted once
C34_Witness ==
    /\ Len(instructions) = 3
    /\ cb_next = 2
    /\ instructions[1].data.variant = "SetComputeUnitLimit"
    /\ instructions[2].data.variant = "SetComputeUnitLimit"
    /\ cb_result = Err(DuplicateInstruction(1))
    /\ cb_details = [ComputeBudgetInstructionDetailsDefault EXCEPT
                        !.requested_compute_unit_limit =
                            Some(<<0, instructions[1].data.value>>),
                        !.count_compute_budget_instructions = U32(1)]

(***************************************************************************)
(* A recorded heap size the library does not allow.                        *)
(***************************************************************************)
\* the record handed to the sanitizers holds a heap size out of range or
\* not a multiple of 1024
HeapRecordedInvalid ==
    /\ details_in # None
    /\ details_in[1].requested_heap_size # None
    /\ LET b == details_in[1].requested_heap_size[1][2]
       IN  \/ U32Lt(b, U32(32 * 1024))
           \/ U32Lt(U32(256 * 1024), b)
           \/ b[2] % 1024 # 0

C36_FilteredParserAgrees ==
    /\ try_from_result # NotRun =>
           try_from_result = get_instruction_details(instructions)
    /\ \A key \in DOMAIN BUILTIN_INSTRUCTION_COSTS : MAYBE_BUILTIN_KEY[first_byte(key)]
    /\ MAYBE_BUILTIN_KEY[first_byte(ComputeBudgetProgram)]

\* try_from went through a compute-budget instruction, an instruction of a
\* program whose key begins like the stake program's, and one the filter
\* passes over
C36_Witness ==
    /\ try_from_result # NotRun
    /\ try_from_result.ok
    /\ Len(instructions) = 3
    /\ instructions[1] = Ix(UserProgram, "Opaque", U32(0))
    /\ instructions[2] = Ix(ComputeBudgetProgram, "RequestHeapFrame", U32(32 * 1024))
    /\ instructions[3] = Ix(TokenProgram, "Opaque", U32(0))
    /\ ~MAYBE_BUILTIN_KEY[first_byte(UserProgram)]
    /\ MAYBE_BUILTIN_KEY[first_byte(TokenProgram)]
    /\ try_from_result.value.count_non_builtin_instructions = U32(2)
    /\ try_from_result.value.requested_heap_size = Some(<<1, U32(32 * 1024)>>)

(***************************************************************************)
(* The counts of an InstructionDetails.                                    *)
(***************************************************************************)
\* the number of requested_* slots of d that hold a request
PopulatedSlots(d) ==
    Cardinality({k \in 1..4 :
                    <<d.requested_compute_unit_limit, d.requested_compute_unit_price,
                      d.requested_heap_size,
                      d.requested_loaded_accounts_data_size_limit>>[k] # None})

\* the counts of d are those of a scan of n instructions
CountsOf(d, n) ==
    /\ ToInt(d.count_builtin_instructions) + ToInt(d.count_non_builtin_instructions) = n
    /\ ToInt(d.count_compute_budget_instructions) = PopulatedSlots(d)
    /\ PopulatedSlots(d) <= 4
    /\ ToInt(d.count_compute_budget_instructions) <= ToInt(d.count_builtin_instructions)
    /\ saturating_sub(saturating_add(d.count_builtin_instructions,
                                     d.count_non_builtin_instructions),
                      d.count_compute_budget_instructions)
           = U32(n - ToInt(d.count_compute_budget_instructions))

\* C37: in every InstructionDetails returned Ok for n instructions the builtin
\* and non-builtin counts add up to n, the count of compute-budget
\* instructions is the number of requested_* slots that hold a request (at
\* most 4) and is at most the builtin count, so that the subtraction of the
\* default compute-unit limit gives the exact difference
C37_Counts ==
    /\ (try_from_result # NotRun /\ try_from_result.ok) =>
           CountsOf(try_from_result.value, Len(instructions))
    /\ (try_from_result # NotRun /\ get_instruction_details(instructions).ok) =>
           CountsOf(get_instruction_details(instructions).value, Len(instructions))

\* two compute-budget requests and an instruction of another program were
\* scanned
C37_Witness ==
    /\ try_from_result # NotRun
    /\ try_from_result.ok
    /\ Len(instructions) = 3
    /\ try_from_result.value.count_compute_budget_instructions = U32(2)
    /\ try_from_result.value.count_builtin_instructions = U32(2)
    /\ try_from_result.value.count_non_builtin_instructions = U32(1)
    /\ PopulatedSlots(try_from_result.value) = 2

(***************************************************************************)
(* The order of the instructions.                                          *)
(***************************************************************************)
\* the instructions ixs in the order p gives them
Permuted(ixs, p) == [i \in DOMAIN ixs |-> ixs[p[i]]]

\* C38: process_compute_budget_instructions does not depend on the order of
\* the instructions: for a sequence of instructions and any permutation of
\* it, both calls fail or both return the same ComputeBudgetLimits
C38_OrderInsensitive ==
    (limits_result # NotRun /\ details_in = None) =>
        \A p \in Permutations(DOMAIN instructions) :
            LET r == process_compute_budget_instructions(Permuted(instructions, p))
            IN  /\ r.ok = limits_result.ok
                /\ r.ok => r = limits_result

\* three different instructions, two of them compute-budget requests, were
\* given limits, the limits they are given in another order
C38_Witness ==
    /\ limits_result # NotRun
    /\ limits_result.ok
    /\ Len(instructions) = 3
    /\ instructions[1].program_id = UserProgram
    /\ instructions[2].data.variant = "RequestHeapFrame"
    /\ instructions[3].data.variant = "SetComputeUnitLimit"
    /\ \E p \in Permutations(DOMAIN instructions) :
          /\ Permuted(instructions, p) # instructions
          /\ process_compute_budget_instructions(Permuted(instructions, p)) = limits_result

(***************************************************************************)
(* The tracker between resets.                                             *)
(***************************************************************************)
\* the step is a call of add_transaction that returned
AddTransactionStep ==
    /\ tracker_ops' = tracker_ops + 1
    /\ tracker_query' = tracker_query
    /\ tracker_call' # None
    /\ tracker_call'[1].op = "add_transaction"
    /\ tracker_call'[1].before = tracker
    /\ tracker_call'[1].after = tracker'
    /\ ~tracker'.panicked

\* C39 as stated: between resets the costs only grow: a would_exceed_limit
\* that is true for some keys and cost is true for them after a further
\* add_transaction
C39_AsStated ==
    [][AddTransactionStep =>
          \A keys \in TrackerKeyLists, cost \in TrackerCosts :
              would_exceed_limit(tracker, keys, cost) = Returned(TRUE) =>
                  would_exceed_limit(tracker', keys, cost) = Returned(TRUE)]_vars

\* no cost the tracker is given or asked about is u32::MAX, so that no sum
\* the tracker forms exceeds u32::MAX
SmallCosts(cost) ==
    /\ cost # U32_MAX
    /\ tracker_call'[1].cost # U32_MAX
    /\ \A k \in DOMAIN tracker.chained_costs : U32Le(tracker.chained_costs[k], U32(36))
    /\ U32Le(tracker.package_cost, U32(18))

\* as long as no sum exceeds u32::MAX, a would_exceed_limit that is true stays
\* true after add_transaction
GrowsWithoutOverflow ==
    [][AddTransactionStep =>
          \A keys \in TrackerKeyLists, cost \in TrackerCosts :
              (SmallCosts(cost) /\ would_exceed_limit(tracker, keys, cost) = Returned(TRUE)) =>
                  would_exceed_limit(tracker', keys, cost) = Returned(TRUE)]_vars

(***************************************************************************)
(* Dropping the fee cache.                                                 *)
(***************************************************************************)
\* every message sent has been handled: the channel is empty, a slot whose
\* finalize_priority_fee was called is frozen, and the updates sent for a
\* slot before that call were applied before the slot was frozen
NothingLost ==
    /\ channel = <<>>
    /\ \A slot \in Slots :
          /\ fee_log[slot].finalize_called => fee_log[slot].frozen
          /\ fee_log[slot].submitted \subseteq fee_log[slot].updates
          /\ fee_log[slot].submitted # {} => slot \in DOMAIN cache

\* C40: dropping the PrioritizationFeeCache terminates: Exit is handled after
\* every update and bank-frozen message queued before it, the finalizing
\* thread then leaves its loop and the join in drop returns; no message
\* queued before the drop is lost
C40_DropTerminates ==
    /\ cache_dropped ~> ~service_running
    /\ [](~service_running => (cache_dropped /\ NothingLost))

\* the cache was dropped with messages still in the channel, and the thread
\* has handled them all and left its loop
C40_Witness ==
    /\ cache_dropped
    /\ ~service_running
    /\ NothingLost
    /\ \E slot \in Slots :
          /\ fee_log[slot].submitted # {}
          /\ fee_log[slot].frozen
    /\ fee_ops = MaxFeeOps

=============================================================================
